---- MODULE Spec2Model ----
(***************************************************************************)
(* Model of the two-step login client of src/static/login.js.              *)
(*                                                                         *)
(* JavaScript values are tagged records: null, undefined, strings and      *)
(* objects.  A string is a sequence of atoms; an atom stands for a run of  *)
(* characters (" " is one blank).  HTTP bodies are such strings too, so    *)
(* JSON.parse is a real parser over the atoms of the body.                 *)
(***************************************************************************)
EXTENDS Integers, Sequences, FiniteSets, TLC

VARIABLES
    pendingToken,       \* login.js:8   let pendingToken
    lastCredentials,    \* login.js:9   let lastCredentials
    loginHidden,        \* loginForm.classList has "hidden"
    verificationHidden, \* verificationForm.classList has "hidden"
    statusText,         \* statusEl.textContent
    statusVariant,      \* statusEl class: "error" or "muted"
    href,               \* last value assigned to window.location.href
    inflight,           \* fetch calls whose promise has not settled yet
    nextSeq,            \* number of the next fetch call
    event,              \* history: the handler that ran last, and how it ended
    issued,             \* history: the tokens successful Start responses carried
    startSucceeded,     \* history: some Start request has returned success
    sinceBack,          \* history: "back" from a back click to the next form event
    lastStartOk,        \* history: the body of the last Start request that succeeded
    verifyFailed,       \* history: a Verify request has failed since then
    newestOk,           \* history: the token of the latest-sent Start request that
                        \* succeeded, and the older ones still in flight
    fetchIn,            \* safeFetch harness: the settled fetch
    fetchOut,           \* safeFetch harness: what safeFetch did with it
    totpStatusText,     \* TOTP login page: statusEl.textContent
    totpStatusVariant,  \* TOTP login page: statusEl class
    totpHref,           \* TOTP login page: value assigned to window.location.href
    totpInflight,       \* TOTP login page: fetch calls that have not settled yet
    totpHist,           \* history: what each submission of the TOTP form has done
    setupStatusText,    \* first-time setup page: statusEl.textContent
    setupStatusVariant, \* first-time setup page: statusEl class
    setupHref,          \* first-time setup page: value assigned to window.location.href
    setupInflight,      \* first-time setup page: fetch calls that have not settled yet
    setupCount,         \* history: number of submissions of the setup form
    isFullFlow,         \* dashboard: the page was opened with ?flow=full
    activeTools,        \* dashboard: the tool list
    renderNonce,        \* dashboard: token of the newest fetching renderToolCards call
    renders,            \* dashboard: tokens of the renderToolCards calls awaiting metrics
    cardList,           \* dashboard: children of #tool-card-list
    chipList,           \* dashboard: chips of #tool-list and #tool-list-top
    instantiated,       \* dashboard: keys whose module has been initialized
    initCalls,          \* history: number of calls of each module initializer
    sections,           \* dashboard: per tool section, its classes, title and close button
    panels,             \* dashboard: which of the four panels carry class "hidden"
    storedTools,        \* dashboard: the list saved in localStorage
    modal,              \* dashboard: the tool-action or confirm-delete modal that is open
    toolOps,            \* history: number of add, archive and delete operations
    nextToolId,         \* history: identity given to the next tool object
    columns,            \* kanban: children of the four columns
    metrics,            \* kanban: the four metric fields
    header,             \* kanban: what the project header shows
    resources,          \* kanban: the resource list of the last resources:update
    initCount,          \* kanban: submit and click listeners added by initTasks
    serverTasks,        \* kanban: the tasks the server holds
    loads,              \* kanban: number of loadTasks calls awaiting the task list
    projectLoads,       \* kanban: number of loadProject calls awaiting the project
    mutations,          \* kanban: add/save/delete/move requests awaiting their reply
    returned,           \* history: the task list of the last load that got one
    taskOps             \* history: number of user operations and events on the board

vars == <<pendingToken, lastCredentials, loginHidden, verificationHidden,
          statusText, statusVariant, href, inflight, nextSeq,
          event, issued, startSucceeded, sinceBack, lastStartOk, verifyFailed,
          newestOk, fetchIn, fetchOut,
          totpStatusText, totpStatusVariant, totpHref, totpInflight, totpHist,
          setupStatusText, setupStatusVariant, setupHref, setupInflight, setupCount,
          isFullFlow, activeTools, renderNonce, renders, cardList, chipList,
          instantiated, initCalls, sections, panels, storedTools, modal, toolOps,
          nextToolId,
          columns, metrics, header, resources, initCount, serverTasks, loads,
          projectLoads, mutations, returned, taskOps>>

loginVars == <<pendingToken, lastCredentials, loginHidden, verificationHidden,
               statusText, statusVariant, href, inflight, nextSeq,
               event, issued, startSucceeded, sinceBack, lastStartOk, verifyFailed,
               newestOk>>

fetchVars == <<fetchIn, fetchOut>>

totpLoginVars == <<totpStatusText, totpStatusVariant, totpHref, totpInflight, totpHist>>

setupVars == <<setupStatusText, setupStatusVariant, setupHref, setupInflight, setupCount>>

\* The two pages of src/unnamed/part_002.
totpVars == <<totpLoginVars, setupVars>>

dashVars == <<isFullFlow, activeTools, renderNonce, renders, cardList, chipList,
              instantiated, initCalls, sections, panels, storedTools, modal, toolOps,
              nextToolId>>

taskVars == <<columns, metrics, header, resources, initCount, serverTasks, loads,
              projectLoads, mutations, returned, taskOps>>

\* The project pages (dashboard and kanban board).
projectVars == <<dashVars, taskVars>>

\* Total number of fetch calls made in one page session.
MaxRequests == 3

----------------------------------------------------------------------------
(* JavaScript values *)

Null == [t |-> "null"]
Undefined == [t |-> "undefined"]
NoneV == [t |-> "none"]
Str(s) == [t |-> "string", s |-> s]
Obj(f) == [t |-> "object", f |-> f]
EmptyObj == Obj(<<>>)

\* JavaScript truthiness of a value.
Truthy(v) ==
    CASE v.t = "null" -> FALSE
      [] v.t = "undefined" -> FALSE
      [] v.t = "string" -> v.s # <<>>
      [] OTHER -> TRUE

\* a || b
Or(a, b) == IF Truthy(a) THEN a ELSE b

\* obj.k : undefined when the property is absent or obj is not an object.
Get(obj, k) ==
    IF obj.t = "object" /\ k \in DOMAIN obj.f THEN obj.f[k] ELSE Undefined

IsSpace(a) == a = " "

RECURSIVE TrimStart(_)
TrimStart(s) ==
    IF s # <<>> /\ IsSpace(Head(s)) THEN TrimStart(Tail(s)) ELSE s

RECURSIVE TrimEnd(_)
TrimEnd(s) ==
    IF s # <<>> /\ IsSpace(s[Len(s)]) THEN TrimEnd(SubSeq(s, 1, Len(s) - 1)) ELSE s

\* String.prototype.trim
Trim(s) == TrimEnd(TrimStart(s))

----------------------------------------------------------------------------
(* HTTP bodies and JSON.parse *)

Quote == "\""
Punctuation == {"{", "}", ":", ",", Quote}

\* The text of a JSON string literal holding s (s is empty or one atom).
Literal(s) == <<Quote>> \o s \o <<Quote>>

\* The text of a JSON object with the members (<<key, string>> pairs) in order.
RECURSIVE MembersText(_)
MembersText(members) ==
    IF members = <<>> THEN <<>>
    ELSE Literal(<<members[1][1]>>) \o <<":">> \o Literal(members[1][2])
         \o (IF Len(members) > 1 THEN <<",">> ELSE <<>>)
         \o MembersText(Tail(members))

ObjectText(members) == <<"{">> \o MembersText(members) \o <<"}">>

ParseFail == [ok |-> FALSE, val |-> Null, next |-> 0]

\* A string literal starting at text[i].
ParseString(text, i) ==
    IF i > Len(text) \/ text[i] # Quote THEN ParseFail
    ELSE IF i + 1 <= Len(text) /\ text[i + 1] = Quote
         THEN [ok |-> TRUE, val |-> Str(<<>>), next |-> i + 2]
    ELSE IF i + 2 <= Len(text) /\ text[i + 1] \notin Punctuation /\ text[i + 2] = Quote
         THEN [ok |-> TRUE, val |-> Str(<<text[i + 1]>>), next |-> i + 3]
    ELSE ParseFail

\* null or a string literal starting at text[i].
ParseScalar(text, i) ==
    IF i <= Len(text) /\ text[i] = "null"
    THEN [ok |-> TRUE, val |-> Null, next |-> i + 1]
    ELSE ParseString(text, i)

\* The members of an object from text[i] on, up to and including "}".
RECURSIVE ParseMembers(_, _, _)
ParseMembers(text, i, acc) ==
    LET k == ParseString(text, i)
        v == ParseScalar(text, k.next + 1)
        f == (k.val.s[1] :> v.val) @@ acc
    IN  IF ~k.ok \/ k.val.s = <<>> THEN ParseFail
        ELSE IF k.next > Len(text) \/ text[k.next] # ":" THEN ParseFail
        ELSE IF ~v.ok \/ v.next > Len(text) THEN ParseFail
        ELSE IF text[v.next] = "}" THEN [ok |-> TRUE, val |-> Obj(f), next |-> v.next + 1]
        ELSE IF text[v.next] = "," THEN ParseMembers(text, v.next + 1, f)
        ELSE ParseFail

ParseValue(text) ==
    IF text # <<>> /\ text[1] = "{"
    THEN IF Len(text) >= 2 /\ text[2] = "}"
         THEN [ok |-> TRUE, val |-> EmptyObj, next |-> 3]
         ELSE ParseMembers(text, 2, <<>>)
    ELSE ParseScalar(text, 1)

\* try { json = JSON.parse(text) } catch { json = null }
JSONParse(text) ==
    LET r == ParseValue(text)
    IN  IF r.ok /\ r.next = Len(text) + 1 THEN r.val ELSE Null

\* parseResponse: the body is read once; json stays null for an empty or
\* unparsable body.
parseResponse(response) ==
    LET text == response.text
        json == IF text # <<>> THEN JSONParse(text) ELSE Null
    IN  [response |-> response, json |-> json, text |-> Str(text)]

GenericFailure == Str(<<"Request failed">>)

\* Mutant of ErrorMessage: the error member is looked at before the message.
ErrorMessage_ErrorFirst(parsed) ==
    Or(IF Truthy(parsed.json)
         THEN Or(Get(parsed.json, "error"), Get(parsed.json, "message"))
         ELSE parsed.json,
       Or(parsed.text, Or(Str(parsed.response.statusText), GenericFailure)))

\* The message of the Error safeFetch throws for a response that is not ok.
ErrorMessage(parsed) ==
    Or(IF Truthy(parsed.json)
         THEN Or(Get(parsed.json, "message"), Get(parsed.json, "error"))
         ELSE parsed.json,
       Or(parsed.text, Or(Str(parsed.response.statusText), GenericFailure)))

\* safeFetch on a settled fetch: a rejected fetch throws its own error, a
\* response that is not ok throws ErrorMessage, anything else returns
\* parsed.json || {}.
safeFetch(settled) ==
    IF settled.kind = "reject"
    THEN [threw |-> TRUE, message |-> settled.message, value |-> Undefined]
    ELSE LET parsed == parseResponse(settled)
         IN  IF ~parsed.response.ok
             THEN [threw |-> TRUE, message |-> ErrorMessage(parsed), value |-> Undefined]
             ELSE [threw |-> FALSE, message |-> Undefined,
                   value |-> Or(parsed.json, EmptyObj)]

----------------------------------------------------------------------------
(* The login page: messages, inputs and the shape of its state *)

MsgRequired == Str(<<"Username/email and password are required.">>)
MsgSending == Str(<<"Sending verification code...">>)
MsgExpired == Str(<<"Verification expired. Please sign in again.">>)
MsgEnterCode == Str(<<"Enter the verification code.">>)
MsgVerifying == Str(<<"Verifying code...">>)
MsgResendFirst == Str(<<"Submit your credentials before requesting another code.">>)
MsgCodeSent == Str(<<"Code sent to your phone.">>)
DefaultRedirect == Str(<<"/app">>)

\* `Code sent to ${hint}.`
MsgCodeSentTo(hint) == Str(<<"Code sent to ">> \o hint.s \o <<".">>)

StartUrl == "/api/auth/start"
VerifyUrl == "/api/auth/verify"

\* What a text field of a submitted form can hold; undefined: no such field.
IdentifierValues ==
    {Undefined, Str(<<>>), Str(<<" ">>), Str(<<"a">>), Str(<<" ", "b", " ">>)}

\* A password of blanks only is not trimmed away.
PasswordValues == {Undefined, Str(<<>>), Str(<<" ">>)}

\* The entries of the submitted login form (FormData of loginForm).
LoginForms == [identifier : IdentifierValues, password : PasswordValues]

\* FormData.get("code") of the verification form; null: no such field.
CodeValues == {Null, Str(<<>>), Str(<<" ">>), Str(<<" ", "1", " ">>)}

\* Bodies the Start endpoint may answer with.
StartTexts ==
    { <<>>, <<"oops">>,
      ObjectText(<< <<"token", <<"t1">>>> >>),
      ObjectText(<< <<"token", <<"t2">>>>, <<"phone_hint", <<"+1...1234">>>> >>),
      ObjectText(<< <<"token", <<"t1">>>>, <<"phone_hint", <<>>>> >>) }

\* Bodies the Verify endpoint may answer with.
VerifyTexts ==
    { <<>>, <<"oops">>, ObjectText(<<>>),
      ObjectText(<< <<"redirect", <<"/account">>>> >>),
      ObjectText(<< <<"redirect", <<>>>> >>) }

\* Bodies and status phrases of the responses that are not ok (SpecFetch
\* below goes through the phrases).
FailureTexts == { <<>>, ObjectText(<< <<"message", <<"Invalid code">>>> >>) }
FailurePhrases == { <<>> }

\* How a fetch can settle: a response (ok or not) or a rejection.
Settled(texts) ==
    [kind : {"response"}, ok : {TRUE}, statusText : {<<"OK">>}, text : texts]
    \cup [kind : {"response"}, ok : {FALSE},
          statusText : FailurePhrases, text : FailureTexts]
    \cup {[kind |-> "reject", message |-> Str(<<"Failed to fetch">>)]}

\* The Verify endpoint turning a code down because its token has expired.
ExpiredResponse ==
    [kind |-> "response", ok |-> FALSE, statusText |-> <<>>,
     text |-> ObjectText(<< <<"message", <<"Verification expired">>>> >>)]

\* How a Start fetch and a Verify fetch can settle.
StartOutcomes == Settled(StartTexts)
VerifyOutcomes == Settled(VerifyTexts) \cup {ExpiredResponse}

\* The TOTP login page right after it has loaded.
TotpPageLoads ==
    /\ totpStatusText = Str(<<>>)
    /\ totpStatusVariant = "muted"
    /\ totpHref = NoneV
    /\ totpInflight = {}
    /\ totpHist = <<>>
    /\ setupStatusText = Str(<<>>)
    /\ setupStatusVariant = "muted"
    /\ setupHref = NoneV
    /\ setupInflight = {}
    /\ setupCount = 0

\* The dashboard is not open.
NoDashboard ==
    /\ isFullFlow = FALSE
    /\ activeTools = <<>>
    /\ renderNonce = 0
    /\ renders = {}
    /\ cardList = <<>>
    /\ chipList = <<>>
    /\ instantiated = {}
    /\ initCalls = <<>>
    /\ sections = <<>>
    /\ panels = {}
    /\ storedTools = NoneV
    /\ modal = NoneV
    /\ toolOps = 0
    /\ nextToolId = 1

\* The kanban board is not open.
NoTaskBoard ==
    /\ columns = <<>>
    /\ metrics = <<>>
    /\ header = NoneV
    /\ resources = <<>>
    /\ initCount = 0
    /\ serverTasks = <<>>
    /\ loads = 0
    /\ projectLoads = 0
    /\ mutations = <<>>
    /\ returned = NoneV
    /\ taskOps = 0

\* The login page right after it has loaded, the safeFetch harness idle.
LoginPageLoads ==
    /\ pendingToken = Null
    /\ lastCredentials = Null
    /\ loginHidden = FALSE
    /\ verificationHidden = TRUE
    /\ statusText = Str(<<>>)
    /\ statusVariant = "muted"
    /\ href = NoneV
    /\ inflight = {}
    /\ nextSeq = 1
    /\ event = [op |-> "none", err |-> "none", msg |-> NoneV]
    /\ issued = {}
    /\ startSucceeded = FALSE
    /\ sinceBack = "other"
    /\ lastStartOk = NoneV
    /\ verifyFailed = FALSE
    /\ newestOk = [token |-> Null, overtaken |-> {}]
    /\ fetchIn = NoneV
    /\ fetchOut = NoneV

\* No project page is open.
NoProjectPage == NoDashboard /\ NoTaskBoard

\* No Start request has succeeded yet.
NoStartOk == [token |-> Null, overtaken |-> {}]

NoEvent == [op |-> "none", err |-> "none", msg |-> NoneV]

Init ==
    /\ pendingToken = Null
    /\ lastCredentials = Null
    /\ loginHidden = FALSE
    /\ verificationHidden = TRUE
    /\ statusText = Str(<<>>)
    /\ statusVariant = "muted"
    /\ href = NoneV
    /\ inflight = {}
    /\ nextSeq = 1
    /\ event = NoEvent
    /\ issued = {}
    /\ startSucceeded = FALSE
    /\ sinceBack = "other"
    /\ lastStartOk = NoneV
    /\ verifyFailed = FALSE
    /\ newestOk = NoStartOk
    /\ fetchIn = NoneV
    /\ fetchOut = NoneV
    /\ TotpPageLoads
    /\ NoProjectPage

----------------------------------------------------------------------------
(* The functions of login.js, as transformers of the page state *)

Cur ==
    [pendingToken |-> pendingToken, lastCredentials |-> lastCredentials,
     loginHidden |-> loginHidden, verificationHidden |-> verificationHidden,
     statusText |-> statusText, statusVariant |-> statusVariant, href |-> href]

Commit(st) ==
    /\ pendingToken' = st.pendingToken
    /\ lastCredentials' = st.lastCredentials
    /\ loginHidden' = st.loginHidden
    /\ verificationHidden' = st.verificationHidden
    /\ statusText' = st.statusText
    /\ statusVariant' = st.statusVariant
    /\ href' = st.href

setStatus(st, message, variant) ==
    [st EXCEPT !.statusText = message,
               !.statusVariant = IF variant = "error" THEN "error" ELSE "muted"]

\* Mutant of showVerificationForm: the hint is never put in the message.
showVerificationForm_NoHint(st, hint) ==
    setStatus([st EXCEPT !.loginHidden = TRUE, !.verificationHidden = FALSE],
              MsgCodeSent, "muted")

showVerificationForm(st, hint) ==
    setStatus([st EXCEPT !.loginHidden = TRUE, !.verificationHidden = FALSE],
              IF Truthy(hint) THEN MsgCodeSentTo(hint) ELSE MsgCodeSent, "muted")

\* Mutant of showLoginForm: the verification form is not hidden.
showLoginForm_KeepsCodeForm(st) ==
    setStatus([st EXCEPT !.pendingToken = Null, !.loginHidden = FALSE],
              Str(<<>>), "muted")

\* Mutant of showLoginForm: the status line is left as it was.
showLoginForm_KeepsStatus(st) ==
    [st EXCEPT !.pendingToken = Null,
               !.verificationHidden = TRUE,
               !.loginHidden = FALSE]

showLoginForm(st) ==
    setStatus([st EXCEPT !.pendingToken = Null,
                         !.verificationHidden = TRUE,
                         !.loginHidden = FALSE],
              Str(<<>>), "muted")

\* Mutant of extractCredentials: the identifier is not trimmed.
extractCredentials_NoTrim(st, data) ==
    LET identifier == Or(data.identifier, Str(<<>>)).s
        password == Or(data.password, Str(<<>>)).s
    IN  IF identifier = <<>> \/ password = <<>>
        THEN [st |-> setStatus(st, MsgRequired, "error"), credentials |-> Null]
        ELSE [st |-> st,
              credentials |-> Obj([identifier |-> Str(identifier),
                                   password |-> Str(password)])]

\* extractCredentials: the credentials object, or null with the status set.
extractCredentials(st, data) ==
    LET identifier == Trim(Or(data.identifier, Str(<<>>)).s)
        password == Or(data.password, Str(<<>>)).s
    IN  IF identifier = <<>> \/ password = <<>>
        THEN [st |-> setStatus(st, MsgRequired, "error"), credentials |-> Null]
        ELSE [st |-> st,
              credentials |-> Obj([identifier |-> Str(identifier),
                                   password |-> Str(password)])]

\* The fetch call safeFetch makes: POST url with the JSON of body.
Request(url, body, origin) ==
    [seq |-> nextSeq, url |-> url, method |-> "POST",
     contentType |-> "application/json", body |-> body, origin |-> origin]

\* The requests to url that are in flight.
Requests(url) == {r \in inflight : r.url = url}

\* The page is still the login page: assigning window.location.href leaves it,
\* and the script with it.
PageLoaded == href = NoneV

\* A handler, or the rest of one after its await, that ends without a fetch.
Finish(st, ev) ==
    /\ PageLoaded
    /\ event' = ev
    /\ Commit(st)
    /\ UNCHANGED <<inflight, nextSeq>>

\* A handler up to its await on safeFetch: the fetch of req leaves.
Send(st, req, ev) ==
    /\ PageLoaded
    /\ nextSeq <= MaxRequests
    /\ event' = ev
    /\ Commit(st)
    /\ inflight' = inflight \cup {req}
    /\ nextSeq' = nextSeq + 1

Ev(op) == [NoEvent EXCEPT !.op = op]

Failed(op, err, msg) == [op |-> op, err |-> err, msg |-> msg]

\* requestCode up to its await: the status is set and the Start fetch leaves.
requestCodeSend(st, credentials, origin) ==
    Send(setStatus(st, MsgSending, "muted"),
         Request(StartUrl, credentials, origin), Ev(origin))

\* loginForm submit handler.
LoginSubmit(data) ==
    LET x == extractCredentials(Cur, data)
    IN  /\ IF x.credentials = Null
           THEN Finish(x.st, Failed("submitCredentials", "ValidationError", MsgRequired))
           ELSE requestCodeSend(x.st, x.credentials, "submitCredentials")
        /\ sinceBack' = "other"
        /\ UNCHANGED <<issued, startSucceeded, lastStartOk, verifyFailed, newestOk, fetchVars, totpVars, projectVars>>

\* Mutant of ResendClick: the cache is not looked at before the request.
ResendClick_NoGuard ==
    /\ requestCodeSend(Cur, lastCredentials, "resend")
    /\ sinceBack' = "other"
    /\ UNCHANGED <<issued, startSucceeded, lastStartOk, verifyFailed, newestOk, fetchVars, totpVars, projectVars>>

\* resendButton click handler.
ResendClick ==
    /\ IF ~Truthy(lastCredentials)
       THEN Finish(setStatus(Cur, MsgResendFirst, "error"),
                   Failed("resend", "StateError", MsgResendFirst))
       ELSE requestCodeSend(Cur, lastCredentials, "resend")
    /\ sinceBack' = "other"
    /\ UNCHANGED <<issued, startSucceeded, lastStartOk, verifyFailed, newestOk, fetchVars, totpVars, projectVars>>

\* Mutant of BackClick: going back cancels the requests in flight.
BackClick_Aborts ==
    /\ PageLoaded
    /\ event' = Ev("back")
    /\ Commit(showLoginForm(Cur))
    /\ inflight' = {}
    /\ nextSeq' = nextSeq
    /\ sinceBack' = "back"
    /\ UNCHANGED <<issued, startSucceeded, lastStartOk, verifyFailed, newestOk, fetchVars, totpVars, projectVars>>

\* backButton click handler.
BackClick ==
    /\ Finish(showLoginForm(Cur), Ev("back"))
    /\ sinceBack' = "back"
    /\ UNCHANGED <<issued, startSucceeded, lastStartOk, verifyFailed, newestOk, fetchVars, totpVars, projectVars>>

\* Mutant of VerificationSubmit: the pending token is not looked at.
VerificationSubmit_NoTokenGuard(codeValue) ==
    LET code == Trim(Or(codeValue, Str(<<>>)).s)
    IN  /\ IF code = <<>>
           THEN Finish(setStatus(Cur, MsgEnterCode, "error"),
                       Failed("submitCode", "ValidationError", MsgEnterCode))
           ELSE Send(setStatus(Cur, MsgVerifying, "muted"),
                     Request(VerifyUrl,
                             Obj([token |-> pendingToken, code |-> Str(code)]),
                             "submitCode"),
                     Ev("submitCode"))
        /\ sinceBack' = "other"
        /\ UNCHANGED <<issued, startSucceeded, lastStartOk, verifyFailed, newestOk, fetchVars, totpVars, projectVars>>

\* Mutant of VerificationSubmit: the code is not trimmed.
VerificationSubmit_NoTrim(codeValue) ==
    LET code == Or(codeValue, Str(<<>>)).s
    IN  /\ IF ~Truthy(pendingToken)
           THEN Finish(showLoginForm(setStatus(Cur, MsgExpired, "error")),
                       Failed("submitCode", "StateError", MsgExpired))
           ELSE IF code = <<>>
           THEN Finish(setStatus(Cur, MsgEnterCode, "error"),
                       Failed("submitCode", "ValidationError", MsgEnterCode))
           ELSE Send(setStatus(Cur, MsgVerifying, "muted"),
                     Request(VerifyUrl,
                             Obj([token |-> pendingToken, code |-> Str(code)]),
                             "submitCode"),
                     Ev("submitCode"))
        /\ sinceBack' = "other"
        /\ UNCHANGED <<issued, startSucceeded, lastStartOk, verifyFailed, newestOk, fetchVars, totpVars, projectVars>>

\* verificationForm submit handler, up to its await.
VerificationSubmit(codeValue) ==
    LET code == Trim(Or(codeValue, Str(<<>>)).s)
    IN  /\ IF ~Truthy(pendingToken)
           THEN Finish(showLoginForm(setStatus(Cur, MsgExpired, "error")),
                       Failed("submitCode", "StateError", MsgExpired))
           ELSE IF code = <<>>
           THEN Finish(setStatus(Cur, MsgEnterCode, "error"),
                       Failed("submitCode", "ValidationError", MsgEnterCode))
           ELSE Send(setStatus(Cur, MsgVerifying, "muted"),
                     Request(VerifyUrl,
                             Obj([token |-> pendingToken, code |-> Str(code)]),
                             "submitCode"),
                     Ev("submitCode"))
        /\ sinceBack' = "other"
        /\ UNCHANGED <<issued, startSucceeded, lastStartOk, verifyFailed, newestOk, fetchVars, totpVars, projectVars>>

\* The Start requests in flight that were sent before req.
Older(req) == {q.seq : q \in {o \in Requests(StartUrl) : o.seq < req.seq}}

\* The error class of a safeFetch that threw.
ThrownAs(settled) == IF settled.kind = "reject" THEN "NetworkError" ELSE "RequestError"

\* Mutant of StartSettles: a failed Start goes through showLoginForm before
\* the message is shown.
StartSettles_FailureGoesBack(req, settled) ==
    LET r == safeFetch(settled)
        payload == r.value
        stored == [Cur EXCEPT !.pendingToken = Get(payload, "token"),
                              !.lastCredentials = req.body]
    IN  /\ PageLoaded
        /\ req \in inflight
        /\ req.url = StartUrl
        /\ inflight' = inflight \ {req}
        /\ IF r.threw
           THEN /\ Commit(setStatus(showLoginForm(Cur), r.message, "error"))
                /\ event' = Failed("startSettled", ThrownAs(settled), r.message)
                /\ newestOk' = [newestOk EXCEPT !.overtaken = @ \ {req.seq}]
                /\ UNCHANGED <<issued, startSucceeded, lastStartOk, verifyFailed>>
           ELSE /\ Commit(showVerificationForm(stored, Get(payload, "phone_hint")))
                /\ event' = Ev("startSettled")
                /\ issued' = issued \cup {t \in {Get(payload, "token")} : Truthy(t)}
                /\ startSucceeded' = TRUE
                /\ lastStartOk' = req.body
                /\ verifyFailed' = FALSE
                /\ newestOk' = IF req.seq \in newestOk.overtaken
                               THEN [newestOk EXCEPT !.overtaken = @ \ {req.seq}]
                               ELSE [token |-> Get(payload, "token"),
                                     overtaken |-> newestOk.overtaken \cup Older(req)]
        /\ UNCHANGED <<nextSeq, sinceBack, fetchVars, totpVars, projectVars>>

\* Mutant of StartSettles: credentials already cached are not replaced.
StartSettles_KeepsCredentials(req, settled) ==
    LET r == safeFetch(settled)
        payload == r.value
        stored == [Cur EXCEPT !.pendingToken = Get(payload, "token"),
                              !.lastCredentials = Or(lastCredentials, req.body)]
    IN  /\ PageLoaded
        /\ req \in inflight
        /\ req.url = StartUrl
        /\ inflight' = inflight \ {req}
        /\ IF r.threw
           THEN /\ Commit(setStatus(Cur, r.message, "error"))
                /\ event' = Failed("startSettled", ThrownAs(settled), r.message)
                /\ newestOk' = [newestOk EXCEPT !.overtaken = @ \ {req.seq}]
                /\ UNCHANGED <<issued, startSucceeded, lastStartOk, verifyFailed>>
           ELSE /\ Commit(showVerificationForm(stored, Get(payload, "phone_hint")))
                /\ event' = Ev("startSettled")
                /\ issued' = issued \cup {t \in {Get(payload, "token")} : Truthy(t)}
                /\ startSucceeded' = TRUE
                /\ lastStartOk' = req.body
                /\ verifyFailed' = FALSE
                /\ newestOk' = IF req.seq \in newestOk.overtaken
                               THEN [newestOk EXCEPT !.overtaken = @ \ {req.seq}]
                               ELSE [token |-> Get(payload, "token"),
                                     overtaken |-> newestOk.overtaken \cup Older(req)]
        /\ UNCHANGED <<nextSeq, sinceBack, fetchVars, totpVars, projectVars>>

\* Mutant of StartSettles: a failed Start request is sent once more.
StartSettles_Retries(req, settled) ==
    LET r == safeFetch(settled)
        payload == r.value
        stored == [Cur EXCEPT !.pendingToken = Get(payload, "token"),
                              !.lastCredentials = req.body]
    IN  /\ PageLoaded
        /\ req \in inflight
        /\ req.url = StartUrl
        /\ IF r.threw
           THEN /\ Commit(setStatus(Cur, r.message, "error"))
                /\ event' = Failed("startSettled", ThrownAs(settled), r.message)
                /\ newestOk' = [newestOk EXCEPT !.overtaken = @ \ {req.seq}]
                /\ IF nextSeq <= MaxRequests
                   THEN /\ inflight' = (inflight \ {req}) \cup {[req EXCEPT !.seq = nextSeq]}
                        /\ nextSeq' = nextSeq + 1
                   ELSE /\ inflight' = inflight \ {req}
                        /\ nextSeq' = nextSeq
                /\ UNCHANGED <<issued, startSucceeded, lastStartOk, verifyFailed>>
           ELSE /\ Commit(showVerificationForm(stored, Get(payload, "phone_hint")))
                /\ event' = Ev("startSettled")
                /\ inflight' = inflight \ {req}
                /\ nextSeq' = nextSeq
                /\ issued' = issued \cup {t \in {Get(payload, "token")} : Truthy(t)}
                /\ startSucceeded' = TRUE
                /\ lastStartOk' = req.body
                /\ verifyFailed' = FALSE
                /\ newestOk' = IF req.seq \in newestOk.overtaken
                               THEN [newestOk EXCEPT !.overtaken = @ \ {req.seq}]
                               ELSE [token |-> Get(payload, "token"),
                                     overtaken |-> newestOk.overtaken \cup Older(req)]
        /\ UNCHANGED <<sinceBack, fetchVars, totpVars, projectVars>>

\* requestCode from its await on: the Start fetch of req has settled.
StartSettles(req, settled) ==
    LET r == safeFetch(settled)
        payload == r.value
        stored == [Cur EXCEPT !.pendingToken = Get(payload, "token"),
                              !.lastCredentials = req.body]
    IN  /\ PageLoaded
        /\ req \in inflight
        /\ req.url = StartUrl
        /\ inflight' = inflight \ {req}
        /\ IF r.threw
           THEN /\ Commit(setStatus(Cur, r.message, "error"))
                /\ event' = Failed("startSettled", ThrownAs(settled), r.message)
                /\ newestOk' = [newestOk EXCEPT !.overtaken = @ \ {req.seq}]
                /\ UNCHANGED <<issued, startSucceeded, lastStartOk, verifyFailed>>
           ELSE /\ Commit(showVerificationForm(stored, Get(payload, "phone_hint")))
                /\ event' = Ev("startSettled")
                /\ issued' = issued \cup {t \in {Get(payload, "token")} : Truthy(t)}
                /\ startSucceeded' = TRUE
                /\ lastStartOk' = req.body
                /\ verifyFailed' = FALSE
                /\ newestOk' = IF req.seq \in newestOk.overtaken
                               THEN [newestOk EXCEPT !.overtaken = @ \ {req.seq}]
                               ELSE [token |-> Get(payload, "token"),
                                     overtaken |-> newestOk.overtaken \cup Older(req)]
        /\ UNCHANGED <<nextSeq, sinceBack, fetchVars, totpVars, projectVars>>

\* Mutant of VerifySettles: a failed Verify sends the user back to the login
\* form, dropping the pending token.
VerifySettles_FailureGoesBack(req, settled) ==
    LET r == safeFetch(settled)
    IN  /\ PageLoaded
        /\ req \in inflight
        /\ req.url = VerifyUrl
        /\ inflight' = inflight \ {req}
        /\ IF r.threw
           THEN /\ Commit(setStatus(showLoginForm(Cur), r.message, "error"))
                /\ event' = Failed("verifySettled", ThrownAs(settled), r.message)
                /\ verifyFailed' = TRUE
           ELSE /\ Commit([Cur EXCEPT !.href = Or(Get(r.value, "redirect"),
                                                  DefaultRedirect)])
                /\ event' = Ev("verifySettled")
                /\ UNCHANGED verifyFailed
        /\ UNCHANGED <<nextSeq, issued, startSucceeded, sinceBack, lastStartOk, newestOk, fetchVars, totpVars, projectVars>>

\* Mutant of VerifySettles: a failed Verify reloads the login page.
VerifySettles_FailureReloads(req, settled) ==
    LET r == safeFetch(settled)
    IN  /\ PageLoaded
        /\ req \in inflight
        /\ req.url = VerifyUrl
        /\ inflight' = inflight \ {req}
        /\ IF r.threw
           THEN /\ Commit([setStatus(Cur, r.message, "error")
                              EXCEPT !.href = Str(<<"/login">>)])
                /\ event' = Failed("verifySettled", ThrownAs(settled), r.message)
                /\ verifyFailed' = TRUE
           ELSE /\ Commit([Cur EXCEPT !.href = Or(Get(r.value, "redirect"),
                                                  DefaultRedirect)])
                /\ event' = Ev("verifySettled")
                /\ UNCHANGED verifyFailed
        /\ UNCHANGED <<nextSeq, issued, startSucceeded, sinceBack, lastStartOk, newestOk, fetchVars, totpVars, projectVars>>

\* Mutant of VerifySettles: a success drops the pending token before it
\* navigates.
VerifySettles_SuccessDropsToken(req, settled) ==
    LET r == safeFetch(settled)
    IN  /\ PageLoaded
        /\ req \in inflight
        /\ req.url = VerifyUrl
        /\ inflight' = inflight \ {req}
        /\ IF r.threw
           THEN /\ Commit(setStatus(Cur, r.message, "error"))
                /\ event' = Failed("verifySettled", ThrownAs(settled), r.message)
                /\ verifyFailed' = TRUE
           ELSE /\ Commit([Cur EXCEPT !.pendingToken = Null,
                                      !.href = Or(Get(r.value, "redirect"),
                                                  DefaultRedirect)])
                /\ event' = Ev("verifySettled")
                /\ UNCHANGED verifyFailed
        /\ UNCHANGED <<nextSeq, issued, startSucceeded, sinceBack, lastStartOk, newestOk, fetchVars, totpVars, projectVars>>

\* Mutant of VerifySettles: the redirect of the response is ignored.
VerifySettles_AlwaysApp(req, settled) ==
    LET r == safeFetch(settled)
    IN  /\ PageLoaded
        /\ req \in inflight
        /\ req.url = VerifyUrl
        /\ inflight' = inflight \ {req}
        /\ IF r.threw
           THEN /\ Commit(setStatus(Cur, r.message, "error"))
                /\ event' = Failed("verifySettled", ThrownAs(settled), r.message)
                /\ verifyFailed' = TRUE
           ELSE /\ Commit([Cur EXCEPT !.href = DefaultRedirect])
                /\ event' = Ev("verifySettled")
                /\ UNCHANGED verifyFailed
        /\ UNCHANGED <<nextSeq, issued, startSucceeded, sinceBack, lastStartOk, newestOk, fetchVars, totpVars, projectVars>>

\* verificationForm submit handler from its await on: the Verify fetch of req
\* has settled.
VerifySettles(req, settled) ==
    LET r == safeFetch(settled)
    IN  /\ PageLoaded
        /\ req \in inflight
        /\ req.url = VerifyUrl
        /\ inflight' = inflight \ {req}
        /\ IF r.threw
           THEN /\ Commit(setStatus(Cur, r.message, "error"))
                /\ event' = Failed("verifySettled", ThrownAs(settled), r.message)
                /\ verifyFailed' = TRUE
           ELSE /\ Commit([Cur EXCEPT !.href = Or(Get(r.value, "redirect"),
                                                  DefaultRedirect)])
                /\ event' = Ev("verifySettled")
                /\ UNCHANGED verifyFailed
        /\ UNCHANGED <<nextSeq, issued, startSucceeded, sinceBack, lastStartOk, newestOk, fetchVars, totpVars, projectVars>>

Next ==
    \/ \E data \in LoginForms : LoginSubmit(data)
    \/ \E codeValue \in CodeValues : VerificationSubmit(codeValue)
    \/ ResendClick
    \/ BackClick
    \/ \E req \in inflight, settled \in StartOutcomes : StartSettles(req, settled)
    \/ \E req \in inflight, settled \in VerifyOutcomes : VerifySettles(req, settled)

Spec == Init /\ [][Next]_vars

----------------------------------------------------------------------------
(* The states of the handshake, read off the two forms *)

AwaitingCredentials == ~loginHidden /\ verificationHidden
AwaitingCode == loginHidden /\ ~verificationHidden

\* No pending token is held: null, or the undefined or empty token of a
\* Start response that carried none.
NoPendingToken == pendingToken \in {Null, Undefined, Str(<<>>)}

----------------------------------------------------------------------------
(* Claims *)

\* C1: submitCode while no pending token exists fails with the "verification
\* expired" state error, sends no Verify request and leaves the login form
\* shown and the verification form hidden, whatever form was visible before
\* and whatever code was typed.
C1_SubmitCodeWithoutToken ==
    [][\A c \in CodeValues :
          (NoPendingToken /\ VerificationSubmit(c)) =>
              /\ event'.op = "submitCode"
              /\ event'.err = "StateError"
              /\ event'.msg = MsgExpired
              /\ inflight' = inflight
              /\ nextSeq' = nextSeq
              /\ AwaitingCredentials'
              /\ NoPendingToken']_vars

\* C1 happens: a code was submitted without a token after a Start request
\* had succeeded (so the verification form had been shown).
C1_Witness ==
    /\ event.op = "submitCode"
    /\ event.err = "StateError"
    /\ startSucceeded
    /\ AwaitingCredentials

\* C2 as stated: the first submitCode after a back click, with no
\* submitCredentials or resend in between, sends no Verify request.
C2_BackThenSubmitCodeFails ==
    [][\A c \in CodeValues :
          (sinceBack = "back" /\ VerificationSubmit(c)) =>
              /\ inflight' = inflight
              /\ nextSeq' = nextSeq]_vars

\* C3: the cached credentials are non-null only after some Start request has
\* returned success, and resend with an empty cache fails with a state error,
\* sends nothing and changes neither the pending token nor the visible form.
C3_ResendNeedsStart ==
    [][/\ (lastCredentials' # Null => startSucceeded')
       /\ (lastCredentials = Null /\ ResendClick) =>
              /\ event'.op = "resend"
              /\ event'.err = "StateError"
              /\ inflight' = inflight
              /\ nextSeq' = nextSeq
              /\ UNCHANGED <<pendingToken, lastCredentials,
                             loginHidden, verificationHidden>>]_vars

\* C3 happens: resend was clicked with nothing cached.
C3_Witness ==
    /\ event.op = "resend"
    /\ event.err = "StateError"
    /\ lastCredentials = Null

\* The requests a step has put in flight, and those whose fetch it has seen
\* settle.
Sent == inflight' \ inflight
Settling == inflight \ inflight'

\* C4: after a successful Start with credentials c, resend issues a Start
\* request whose body is exactly c, also after failed submitCode attempts:
\* no code submission and no failed Verify changes the cached credentials, and
\* a failed Verify leaves the pending token alone.
C4_ResendReusesCredentials ==
    [][/\ (lastStartOk # NoneV /\ ResendClick) =>
              /\ Cardinality(Sent) = 1
              /\ \A r \in Sent :
                    r.url = StartUrl /\ r.method = "POST" /\ r.body = lastStartOk
       /\ \A c \in CodeValues :
              VerificationSubmit(c) => lastCredentials' = lastCredentials
       /\ \A req \in Settling, settled \in VerifyOutcomes :
              ( /\ (settled.kind = "reject" \/ ~settled.ok)
                /\ VerifySettles(req, settled) ) =>
                  UNCHANGED <<pendingToken, lastCredentials, lastStartOk>>]_vars

\* C4 happens: a resend left with the credentials of the last successful
\* Start, and a Verify request had failed since that Start.
C4_Witness ==
    /\ event.op = "resend"
    /\ event.err = "none"
    /\ verifyFailed
    /\ \E r \in Requests(StartUrl) : r.origin = "resend" /\ r.body = lastStartOk

\* A sequence of blanks only (the empty one included).
AllBlank(s) == \A i \in 1..Len(s) : s[i] = " "

\* The identifier is missing, empty or blank, or the password is missing or
\* empty.
InvalidForm(data) ==
    \/ data.identifier = Undefined
    \/ data.identifier # Undefined /\ AllBlank(data.identifier.s)
    \/ data.password \in {Undefined, Str(<<>>)}

InvalidForms == {data \in LoginForms : InvalidForm(data)}

\* C5: submitCredentials with an empty, missing or blank identifier, or an
\* empty or missing password, fails with a validation error, sends nothing and
\* leaves the pending token, the cached credentials and the forms as they were.
C5_InvalidCredentialsRejected ==
    [][(\E data \in InvalidForms : LoginSubmit(data)) =>
              /\ event'.op = "submitCredentials"
              /\ event'.err = "ValidationError"
              /\ statusText' = MsgRequired
              /\ statusVariant' = "error"
              /\ inflight' = inflight
              /\ nextSeq' = nextSeq
              /\ UNCHANGED <<pendingToken, lastCredentials,
                             loginHidden, verificationHidden>>]_vars

\* C5 happens: a credential submission ended in the validation error while a
\* token and credentials were held.
C5_Witness ==
    /\ event.op = "submitCredentials"
    /\ event.err = "ValidationError"
    /\ ~NoPendingToken
    /\ lastCredentials # Null

\* s has t as a run of consecutive atoms.
Contains(s, t) == \E i \in 1..(Len(s) - Len(t) + 1) : SubSeq(s, i, i + Len(t) - 1) = t

\* The Start responses of the claim: ok, with a token, and a hint that is
\* absent, empty or present.
TokenCases ==
    { [token |-> <<"t1">>, hint |-> Undefined,
       text |-> ObjectText(<< <<"token", <<"t1">>>> >>)],
      [token |-> <<"t2">>, hint |-> Str(<<"+1...1234">>),
       text |-> ObjectText(<< <<"token", <<"t2">>>>, <<"phone_hint", <<"+1...1234">>>> >>)],
      [token |-> <<"t1">>, hint |-> Str(<<>>),
       text |-> ObjectText(<< <<"token", <<"t1">>>>, <<"phone_hint", <<>>>> >>)] }

OkResponse(text) == [kind |-> "response", ok |-> TRUE, statusText |-> <<"OK">>, text |-> text]

\* C6: a Start success with a token stores it as the pending token, shows the
\* verification form instead of the login form, and sets the status to a
\* message containing the hint, or to the generic one when the hint is absent
\* or empty.
C6_StartSuccessShowsCodeForm ==
    [][\A req \in Settling, case \in TokenCases :
          StartSettles(req, OkResponse(case.text)) =>
              /\ pendingToken' = Str(case.token)
              /\ AwaitingCode'
              /\ statusVariant' = "muted"
              /\ IF case.hint \in {Undefined, Str(<<>>)}
                 THEN statusText' = MsgCodeSent
                 ELSE /\ Contains(statusText'.s, case.hint.s)
                      /\ statusText' # MsgCodeSent]_vars

\* C6 happens: a Start response with token t2 and a hint was handled.
C6_Witness ==
    /\ event.op = "startSettled"
    /\ event.err = "none"
    /\ pendingToken = Str(<<"t2">>)
    /\ Contains(statusText.s, <<"+1...1234">>)

\* The redirect a Verify body carries, /app when it carries none.
RedirectCases ==
    { [text |-> ObjectText(<< <<"redirect", <<"/account">>>> >>), to |-> Str(<<"/account">>)],
      [text |-> ObjectText(<< <<"redirect", <<>>>> >>), to |-> DefaultRedirect],
      [text |-> ObjectText(<<>>), to |-> DefaultRedirect],
      [text |-> <<>>, to |-> DefaultRedirect],
      [text |-> <<"oops">>, to |-> DefaultRedirect] }

\* C7: a Verify success navigates to the redirect of the body, to /app when
\* the body has none, is empty or is no JSON; nothing else navigates.
C7_VerifySuccessNavigates ==
    [][/\ \A req \in Settling, case \in RedirectCases :
              VerifySettles(req, OkResponse(case.text)) => href' = case.to
       /\ href' # href =>
              \E req \in Settling, case \in RedirectCases :
                 VerifySettles(req, OkResponse(case.text))]_vars

\* C7 happens: the page went to the redirect target of a Verify response.
C7_Witness ==
    /\ event.op = "verifySettled"
    /\ event.err = "none"
    /\ href = Str(<<"/account">>)

\* C9: every Verify request sent carries the pending token held at that
\* moment, which is not empty and was stored from a successful Start response.
C9_VerifyCarriesPendingToken ==
    [][\A r \in Sent :
          r.url = VerifyUrl =>
              /\ r.body.f.token = pendingToken
              /\ ~NoPendingToken
              /\ pendingToken.t = "string"
              /\ pendingToken \in issued
              /\ startSucceeded]_vars

\* C9 happens: a Verify request is on its way with the pending token.
C9_Witness ==
    /\ event.op = "submitCode"
    /\ event.err = "none"
    /\ \E r \in Requests(VerifyUrl) : r.body.f.token = pendingToken /\ r.seq = nextSeq - 1

\* C10 as stated: every failed operation ends with a visible, non-empty error
\* status and one of the two forms shown.
C10_FailuresAreVisible ==
    event.err # "none" =>
        /\ statusVariant = "error"
        /\ statusText.s # <<>>
        /\ (AwaitingCredentials \/ AwaitingCode)

\* C11 as stated: a back click empties the credential cache, and a resend
\* that follows it, with no other form event in between, fails with a state
\* error and sends no Start request.
C11_BackClearsCredentials ==
    [][/\ BackClick => lastCredentials' = Null
       /\ (sinceBack = "back" /\ ResendClick) =>
              /\ event'.err = "StateError"
              /\ inflight' = inflight
              /\ nextSeq' = nextSeq]_vars

\* C12: the back click is never refused while the page is loaded, and from
\* every state its handler leaves the pending token null, the status message
\* empty, the login form shown and the verification form hidden; it sends
\* nothing and cancels nothing.
C12_BackIsUnconditional ==
    [][/\ PageLoaded => ENABLED BackClick
       /\ BackClick =>
              /\ pendingToken' = Null
              /\ statusText' = Str(<<>>)
              /\ statusVariant' = "muted"
              /\ AwaitingCredentials'
              /\ inflight' = inflight]_vars

\* C12 happens: back was clicked while a Start and a Verify request were in
\* flight (so from the verification form, with a token held).
C12_Witness ==
    /\ event.op = "back"
    /\ Requests(StartUrl) # {}
    /\ Requests(VerifyUrl) # {}
    /\ pendingToken = Null
    /\ AwaitingCredentials

\* The ways a request fails, with the message safeFetch extracts: a JSON
\* error body, an empty body without a status phrase, a transport failure.
FailureCases ==
    { [settled |-> [kind |-> "response", ok |-> FALSE, statusText |-> <<>>,
                    text |-> ObjectText(<< <<"message", <<"Invalid code">>>> >>)],
       msg |-> Str(<<"Invalid code">>)],
      [settled |-> [kind |-> "response", ok |-> FALSE, statusText |-> <<>>, text |-> <<>>],
       msg |-> Str(<<"Request failed">>)],
      [settled |-> [kind |-> "reject", message |-> Str(<<"Failed to fetch">>)],
       msg |-> Str(<<"Failed to fetch">>)] }

\* C13: a submitCredentials whose Start request fails changes nothing but the
\* status, neither when the request leaves nor when the failure is handled:
\* the forms, the pending token and the cached credentials stay as they were
\* (a client in AwaitingCredentials remains there), and the status becomes
\* the extracted error message, as an error.
C13_StartFailureKeepsState ==
    [][/\ event'.op = "submitCredentials" =>
              UNCHANGED <<pendingToken, lastCredentials, loginHidden, verificationHidden>>
       /\ \A req \in Settling, case \in FailureCases :
              ( /\ req.origin = "submitCredentials"
                /\ StartSettles(req, case.settled) ) =>
                  /\ statusText' = case.msg
                  /\ statusVariant' = "error"
                  /\ UNCHANGED <<pendingToken, lastCredentials,
                                 loginHidden, verificationHidden, href>>]_vars

\* C13 happens: the Start request of a submitCredentials was rejected with a
\* message (no credentials are cached, so no resend was ever sent), and the
\* client is in AwaitingCredentials with that message as its error status.
C13_Witness ==
    /\ event.op = "startSettled"
    /\ event.err = "RequestError"
    /\ lastCredentials = Null
    /\ AwaitingCredentials
    /\ statusText = Str(<<"Invalid code">>)
    /\ statusVariant = "error"

\* C14: handling a failed Verify request sets the error status to the
\* extracted message and changes nothing else: the forms stay as they are (a
\* client in AwaitingCode remains there), nothing navigates, and the pending
\* token and the cached credentials are unchanged.
C14_VerifyFailureStays ==
    [][\A req \in Settling, case \in FailureCases :
          VerifySettles(req, case.settled) =>
              /\ statusText' = case.msg
              /\ statusVariant' = "error"
              /\ href' = href
              /\ UNCHANGED <<pendingToken, lastCredentials,
                             loginHidden, verificationHidden>>
              /\ inflight' = inflight \ {req}]_vars

\* C14 happens: a Verify request was rejected and the client is still in
\* AwaitingCode with its token and credentials, the message shown as an error.
C14_Witness ==
    /\ event.op = "verifySettled"
    /\ event.err = "RequestError"
    /\ AwaitingCode
    /\ ~NoPendingToken
    /\ lastCredentials # Null
    /\ href = NoneV
    /\ statusText = Str(<<"Invalid code">>)
    /\ statusVariant = "error"

\* The codes that are missing, empty or blanks only.
BlankCodes == {c \in CodeValues : c = Null \/ (c # Null /\ AllBlank(c.s))}

\* C15: submitCode with a pending token and a missing, empty or blank code
\* fails with the validation error and sends nothing; the pending token, the
\* cached credentials and the forms stay as they were.
C15_BlankCodeRejected ==
    [][\A c \in BlankCodes :
          (~NoPendingToken /\ VerificationSubmit(c)) =>
              /\ event'.op = "submitCode"
              /\ event'.err = "ValidationError"
              /\ statusText' = MsgEnterCode
              /\ statusVariant' = "error"
              /\ inflight' = inflight
              /\ nextSeq' = nextSeq
              /\ UNCHANGED <<pendingToken, lastCredentials,
                             loginHidden, verificationHidden, href>>]_vars

\* C15 happens: a blank code was turned down on the verification form while
\* a token was pending.
C15_Witness ==
    /\ event.op = "submitCode"
    /\ event.err = "ValidationError"
    /\ statusText = MsgEnterCode
    /\ AwaitingCode
    /\ ~NoPendingToken

\* C16 as stated: once a Verify response that reports the token as expired
\* has been handled, no pending token is held and the client is back in
\* AwaitingCredentials.
C16_ExpiryDiscardsToken ==
    [][\A req \in Settling :
          VerifySettles(req, ExpiredResponse) =>
              /\ NoPendingToken'
              /\ AwaitingCredentials']_vars

\* C17 as stated: at most one Verify request is in flight at any time.
C17_OneVerifyInFlight == Cardinality(Requests(VerifyUrl)) <= 1

\* C18 as stated: a pending token that is not null is the token returned for
\* the latest-sent Start request among those that have succeeded.
C18_TracksNewestToken == pendingToken # Null => pendingToken = newestOk.token

\* The handlers a user action starts, by the name they leave in event.
UserActions == {"submitCredentials", "resend", "submitCode"}

\* C21: a step sends at most one request; a request leaves only in the
\* handler of a credential submission, a resend click or a code submission,
\* as the request of that action and as one more fetch call; the handling of
\* a response or of a failure, and the back click, send nothing.
C21_NoAutomaticRetries ==
    [][/\ Cardinality(Sent) <= 1
       /\ nextSeq' = nextSeq + Cardinality(Sent)
       /\ \A r \in Sent :
              /\ event'.op \in UserActions
              /\ r.origin = event'.op
              /\ r.seq = nextSeq
              /\ event'.err = "none"
       /\ event'.op \notin UserActions => Sent = {}
       /\ Settling # {} => Sent = {}]_vars

\* C21 happens: the one request sent so far has failed and nothing was sent
\* in its place.
C21_Witness ==
    /\ event.op \in {"startSettled", "verifySettled"}
    /\ event.err # "none"
    /\ inflight = {}
    /\ nextSeq = 2

\* C22: handling a Verify success assigns the redirect target to
\* window.location.href and does nothing else: the pending token, the cached
\* credentials, the two forms and the status line are as they were, and
\* nothing is sent.
C22_VerifySuccessOnlyNavigates ==
    [][\A req \in Settling, case \in RedirectCases :
          VerifySettles(req, OkResponse(case.text)) =>
              /\ href' = case.to
              /\ UNCHANGED <<pendingToken, lastCredentials, loginHidden,
                             verificationHidden, statusText, statusVariant>>
              /\ Sent = {}
              /\ nextSeq' = nextSeq]_vars

\* C22 happens: a Verify success has been handled and the page still shows
\* the verification form with the token, the credentials and the status of
\* the submission.
C22_Witness ==
    /\ event.op = "verifySettled"
    /\ event.err = "none"
    /\ href = DefaultRedirect
    /\ ~NoPendingToken
    /\ lastCredentials # Null
    /\ AwaitingCode
    /\ statusText = MsgVerifying

\* What handles a settled fetch, by the name it leaves in event.
SettleSteps == {"startSettled", "verifySettled"}

\* C23: the page has no timer and no cancellation.  Every step is the
\* handler of a user action or of one settled fetch; a request stops being in
\* flight only in the step that handles its own response or failure; and
\* while a Verify request is in flight the 'Verifying' status is replaced
\* only by such a step, so with no response and no user action it stays.
C23_NoTimeoutNoCancel ==
    [][/\ event'.op \in UserActions \cup {"back"} \cup SettleSteps
       /\ Cardinality(Settling) <= 1
       /\ \A req \in Settling :
              /\ event'.op = (IF req.url = StartUrl THEN "startSettled" ELSE "verifySettled")
              /\ Sent = {}
       /\ event'.op \notin SettleSteps => Settling = {}
       /\ ( /\ statusText = MsgVerifying
            /\ Requests(VerifyUrl) # {}
            /\ statusText' # MsgVerifying ) =>
              \/ event'.op \in UserActions \cup {"back"}
              \/ Settling # {}]_vars

\* C23 happens: the user went back and a Verify request is still in flight,
\* uncancelled.
C23_Witness ==
    /\ event.op = "back"
    /\ Requests(VerifyUrl) # {}
    /\ Requests(StartUrl) = {}
    /\ pendingToken = Null

\* C26 as stated: whenever the verification form is the visible one, a
\* non-empty pending token is held.
C26_CodeFormHasToken == AwaitingCode => ~NoPendingToken

\* C27: the handling of a successful Start response writes the pending token
\* and the cached credentials together, the token of that response and the
\* body of its request; no other step writes the credentials, and the only
\* other write to the token is the reset to null by the back click or by a
\* code submission that finds no token.  So whenever a pending token is held,
\* the cached credentials are the body of the Start request it answered.
C27_TokenAndCredentialsTogether ==
    [][/\ \A req \in Settling :
              (req.url = StartUrl /\ event'.err = "none") =>
                  /\ lastCredentials' = req.body
                  /\ lastStartOk' = req.body
                  /\ \A case \in TokenCases :
                        StartSettles(req, OkResponse(case.text)) =>
                            pendingToken' = Str(case.token)
       /\ (event'.op # "startSettled" \/ event'.err # "none") =>
              /\ lastCredentials' = lastCredentials
              /\ pendingToken' \in {pendingToken, Null}
              /\ pendingToken' # pendingToken => event'.op \in {"back", "submitCode"}
       /\ pendingToken' # Null =>
              /\ lastCredentials' # Null
              /\ lastCredentials' = lastStartOk']_vars

\* C27 happens: two Start requests with different credentials were answered
\* out of order; the token held is the one of the response handled last, and
\* the cached credentials are those of its request.
C27_Witness ==
    /\ event.op = "startSettled"
    /\ event.err = "none"
    /\ pendingToken = Str(<<"t1">>)
    /\ newestOk.token = Str(<<"t2">>)
    /\ lastCredentials = lastStartOk
    /\ lastCredentials.f.identifier = Str(<<"a">>)

----------------------------------------------------------------------------
(* safeFetch on its own: every settled fetch of FetchInputs is handed to it *)

\* What the message and the error member of an error body can be; "absent":
\* the body has no such member.
MemberChoices == {"absent", "empty", "set"}

MemberText(key, choice, value) ==
    CASE choice = "absent" -> <<>>
      [] choice = "empty" -> << <<key, <<>>>> >>
      [] OTHER -> << <<key, <<value>>>> >>

\* The JSON object body with the chosen message and error members.
ErrorBody(m, e) ==
    ObjectText(MemberText("message", m, "Invalid code") \o MemberText("error", e, "bad"))

\* Bodies that are no JSON object: empty, plain text, the JSON null, a JSON
\* string, and a truncated object.
PlainTexts == { <<>>, <<"oops">>, <<"null">>, Literal(<<"x">>), <<"{", Quote, "message", Quote>> }

FetchTexts == {ErrorBody(m, e) : m \in MemberChoices, e \in MemberChoices} \cup PlainTexts

FetchInputs ==
    [kind : {"response"}, ok : BOOLEAN,
     statusText : {<<>>, <<"Internal Server Error">>}, text : FetchTexts]
    \cup {[kind |-> "reject", message |-> Str(<<"Failed to fetch">>)]}

InitFetch ==
    /\ pendingToken = Null
    /\ lastCredentials = Null
    /\ loginHidden = FALSE
    /\ verificationHidden = TRUE
    /\ statusText = Str(<<>>)
    /\ statusVariant = "muted"
    /\ href = NoneV
    /\ inflight = {}
    /\ nextSeq = 1
    /\ event = NoEvent
    /\ issued = {}
    /\ startSucceeded = FALSE
    /\ sinceBack = "other"
    /\ lastStartOk = NoneV
    /\ verifyFailed = FALSE
    /\ newestOk = NoStartOk
    /\ fetchIn \in FetchInputs
    /\ fetchOut = NoneV
    /\ TotpPageLoads
    /\ NoProjectPage

\* await safeFetch(...) with the fetch settled as fetchIn.
CallSafeFetch ==
    /\ fetchOut = NoneV
    /\ fetchOut' = safeFetch(fetchIn)
    /\ UNCHANGED <<fetchIn, loginVars, totpVars, projectVars>>

NextFetch == CallSafeFetch

SpecFetch == InitFetch /\ [][NextFetch]_vars

\* The first of the candidates that is not empty.
RECURSIVE FirstNonEmpty(_)
FirstNonEmpty(candidates) ==
    IF candidates = <<>> THEN <<"Request failed">>
    ELSE IF Head(candidates) # <<>> THEN Head(candidates)
    ELSE FirstNonEmpty(Tail(candidates))

MemberValue(choice, value) == IF choice = "set" THEN <<value>> ELSE <<>>

\* C8: for a response that is not ok, safeFetch throws an error whose text is
\* the first non-empty one of: the message member of the JSON body, its error
\* member, the raw body text, the status phrase, and "Request failed".
C8_ErrorTextPriority ==
    (fetchOut # NoneV /\ fetchIn.kind = "response" /\ ~fetchIn.ok) =>
        /\ fetchOut.threw
        /\ \A m \in MemberChoices, e \in MemberChoices :
              fetchIn.text = ErrorBody(m, e) =>
                  fetchOut.message =
                      Str(FirstNonEmpty(<<MemberValue(m, "Invalid code"),
                                          MemberValue(e, "bad"),
                                          fetchIn.text, fetchIn.statusText>>))
        /\ fetchIn.text \in PlainTexts =>
              fetchOut.message = Str(FirstNonEmpty(<<fetchIn.text, fetchIn.statusText>>))

\* C8 happens: a body with an empty message and an error member came with a
\* failure status, and the error member was surfaced.
C8_Witness ==
    /\ fetchOut # NoneV
    /\ fetchIn.kind = "response"
    /\ ~fetchIn.ok
    /\ fetchIn.text = ErrorBody("empty", "set")
    /\ fetchOut.threw
    /\ fetchOut.message = Str(<<"bad">>)

----------------------------------------------------------------------------
(* The TOTP-only login page of src/unnamed/part_002 (second script)        *)

\* Number of form submissions (login and first-time setup) in one session.
MaxSubmissions == 2

TotpLoginUrl == "/api/auth/totp-login"
TotpSetupUrl == "/api/auth/setup-first"

MsgTotpRequired == Str(<<"Authenticator code is required.">>)
MsgTotpVerifying == Str(<<"Verifying code...">>)

\* The totp_code field of the submitted form; undefined: no such field.
TotpCodeValues ==
    {Undefined, Str(<<>>), Str(<<" ">>), Str(<<" ", "123456", " ">>), Str(<<"654321">>)}

\* A response with its status code.
Response(status, phrase, text) ==
    [kind |-> "response", ok |-> status \in 200..299, status |-> status,
     statusText |-> phrase, text |-> text]

NetworkFailure == [kind |-> "reject", message |-> Str(<<"Failed to fetch">>)]

\* How the totp-login fetch can settle.
TotpLoginOutcomes ==
    { Response(200, <<"OK">>, ObjectText(<<>>)),
      Response(200, <<"OK">>, ObjectText(<< <<"redirect", <<"/account">>>> >>)),
      Response(404, <<"Not Found">>, ObjectText(<< <<"error", <<"No user configured">>>> >>)),
      Response(409, <<"Conflict">>,
               ObjectText(<< <<"message", <<"Authenticator not configured">>>> >>)),
      Response(401, <<"Unauthorized">>, ObjectText(<< <<"error", <<"Invalid code">>>> >>)),
      Response(404, <<"Not Found">>, ObjectText(<< <<"error", <<"User not found">>>> >>)),
      Response(409, <<"Conflict">>, <<>>),
      Response(500, <<>>, <<"upstream error ", "409", " at gateway">>),
      NetworkFailure }

\* How the setup-first fetch can settle.
TotpSetupOutcomes ==
    { Response(200, <<"OK">>, ObjectText(<<>>)),
      Response(200, <<"OK">>, ObjectText(<< <<"redirect", <<"/account">>>> >>)),
      Response(409, <<"Conflict">>, ObjectText(<< <<"error", <<"Already configured">>>> >>)),
      NetworkFailure }

TotpCur ==
    [statusText |-> totpStatusText, statusVariant |-> totpStatusVariant, href |-> totpHref]

TotpCommit(st) ==
    /\ totpStatusText' = st.statusText
    /\ totpStatusVariant' = st.statusVariant
    /\ totpHref' = st.href

\* Mutant of extractTotp: the code is not trimmed.
extractTotp_NoTrim(st, data) ==
    LET totp_code == Or(data, Str(<<>>)).s
    IN  IF totp_code = <<>>
        THEN [st |-> setStatus(st, MsgTotpRequired, "error"), payload |-> Null]
        ELSE [st |-> st, payload |-> Obj([totp_code |-> Str(totp_code)])]

\* extractTotp: the payload, or null with the status set.
extractTotp(st, data) ==
    LET totp_code == Trim(Or(data, Str(<<>>)).s)
    IN  IF totp_code = <<>>
        THEN [st |-> setStatus(st, MsgTotpRequired, "error"), payload |-> Null]
        ELSE [st |-> st, payload |-> Obj([totp_code |-> Str(totp_code)])]

\* msg.includes(needle), for a needle that is one atom.
Includes(msg, needle) == \E i \in 1..Len(msg.s) : msg.s[i] = needle

\* Mutant of NoUserYet: every failure counts as "no user yet".
NoUserYet_Always(msg) == TRUE

\* The test of the inner catch: the failure message says that no user exists.
NoUserYet(msg) ==
    \/ Includes(msg, "No user configured")
    \/ Includes(msg, "Authenticator not configured")
    \/ Includes(msg, "404")
    \/ Includes(msg, "409")

\* The TOTP page is still loaded.
TotpLoaded == totpHref = NoneV

TotpRequest(sub, url, body) ==
    [sub |-> sub, url |-> url, method |-> "POST",
     contentType |-> "application/json", body |-> body]

\* What a submission has done so far.
Submission(payload) ==
    [payload |-> payload, loginSent |-> 0, setupSent |-> 0,
     login |-> "none", loginStatus |-> 0, loginMsg |-> NoneV, setup |-> "none"]

\* loginForm submit handler of the TOTP page, up to its first await.
TotpSubmit(data) ==
    LET x == extractTotp(TotpCur, data)
        sub == Len(totpHist) + 1
    IN  /\ TotpLoaded
        /\ Len(totpHist) + setupCount < MaxSubmissions
        /\ IF x.payload = Null
           THEN /\ TotpCommit(x.st)
                /\ totpInflight' = totpInflight
                /\ totpHist' = Append(totpHist, Submission(Null))
           ELSE /\ TotpCommit(setStatus(x.st, MsgTotpVerifying, "muted"))
                /\ totpInflight' = totpInflight \cup
                                       {TotpRequest(sub, TotpLoginUrl, x.payload)}
                /\ totpHist' = Append(totpHist,
                                      [Submission(x.payload) EXCEPT !.loginSent = 1,
                                                                    !.login = "pending"])
        /\ UNCHANGED <<loginVars, fetchVars, setupVars, projectVars>>

\* The handler from its first await on: the totp-login fetch of req has
\* settled.  A failure that says no user exists yet goes on to first-time
\* setup with the same payload; any other failure is rethrown to the outer
\* catch.
TotpLoginSettles(req, settled) ==
    LET r == safeFetch(settled)
        msg == Or(r.message, Str(<<>>))
        status == IF settled.kind = "response" THEN settled.status ELSE 0
        done == [totpHist[req.sub] EXCEPT !.loginStatus = status,
                                          !.loginMsg = IF r.threw THEN msg ELSE NoneV]
    IN  /\ TotpLoaded
        /\ req \in totpInflight
        /\ req.url = TotpLoginUrl
        /\ IF ~r.threw
           THEN /\ TotpCommit([TotpCur EXCEPT !.href = Or(Get(r.value, "redirect"),
                                                          DefaultRedirect)])
                /\ totpInflight' = totpInflight \ {req}
                /\ totpHist' = [totpHist EXCEPT ![req.sub] = [done EXCEPT !.login = "ok"]]
           ELSE IF NoUserYet(msg)
           THEN /\ TotpCommit(TotpCur)
                /\ totpInflight' = (totpInflight \ {req}) \cup
                                       {TotpRequest(req.sub, TotpSetupUrl, req.body)}
                /\ totpHist' = [totpHist EXCEPT ![req.sub] =
                                   [done EXCEPT !.login = "failed",
                                                !.setupSent = @ + 1,
                                                !.setup = "pending"]]
           ELSE /\ TotpCommit(setStatus(TotpCur, r.message, "error"))
                /\ totpInflight' = totpInflight \ {req}
                /\ totpHist' = [totpHist EXCEPT ![req.sub] = [done EXCEPT !.login = "failed"]]
        /\ UNCHANGED <<loginVars, fetchVars, setupVars, projectVars>>

\* The handler from its second await on: the setup-first fetch of req has
\* settled.
TotpSetupSettles(req, settled) ==
    LET r == safeFetch(settled)
    IN  /\ TotpLoaded
        /\ req \in totpInflight
        /\ req.url = TotpSetupUrl
        /\ totpInflight' = totpInflight \ {req}
        /\ IF ~r.threw
           THEN /\ TotpCommit([TotpCur EXCEPT !.href = Or(Get(r.value, "redirect"),
                                                          DefaultRedirect)])
                /\ totpHist' = [totpHist EXCEPT ![req.sub].setup = "ok"]
           ELSE /\ TotpCommit(setStatus(TotpCur, r.message, "error"))
                /\ totpHist' = [totpHist EXCEPT ![req.sub].setup = "failed"]
        /\ UNCHANGED <<loginVars, fetchVars, setupVars, projectVars>>

----------------------------------------------------------------------------
(* The first-time setup page of src/unnamed/part_002 (first script)        *)

MsgCompleting == Str(<<"Completing setup...">>)

SetupCur ==
    [statusText |-> setupStatusText, statusVariant |-> setupStatusVariant,
     href |-> setupHref]

SetupCommit(st) ==
    /\ setupStatusText' = st.statusText
    /\ setupStatusVariant' = st.statusVariant
    /\ setupHref' = st.href

\* The setup page is still loaded.
SetupLoaded == setupHref = NoneV

\* setup form submit handler, up to its await.
SetupSubmit(data) ==
    LET totp_code == Trim(Or(data, Str(<<>>)).s)
    IN  /\ SetupLoaded
        /\ Len(totpHist) + setupCount < MaxSubmissions
        /\ setupCount' = setupCount + 1
        /\ IF totp_code = <<>>
           THEN /\ SetupCommit(setStatus(SetupCur, MsgTotpRequired, "error"))
                /\ setupInflight' = setupInflight
           ELSE /\ SetupCommit(setStatus(SetupCur, MsgCompleting, "muted"))
                /\ setupInflight' = setupInflight \cup
                       {TotpRequest(setupCount + 1, TotpSetupUrl,
                                    Obj([totp_code |-> Str(totp_code)]))}
        /\ UNCHANGED <<loginVars, fetchVars, totpLoginVars, projectVars>>

\* setup form submit handler from its await on: the fetch of req has settled.
SetupSettles(req, settled) ==
    LET r == safeFetch(settled)
    IN  /\ SetupLoaded
        /\ req \in setupInflight
        /\ setupInflight' = setupInflight \ {req}
        /\ IF ~r.threw
           THEN SetupCommit([SetupCur EXCEPT !.href = Or(Get(r.value, "redirect"),
                                                         DefaultRedirect)])
           ELSE SetupCommit(setStatus(SetupCur, r.message, "error"))
        /\ UNCHANGED <<loginVars, fetchVars, totpLoginVars, setupCount, projectVars>>

NextTotp ==
    \/ \E data \in TotpCodeValues : TotpSubmit(data)
    \/ \E req \in totpInflight, settled \in TotpLoginOutcomes : TotpLoginSettles(req, settled)
    \/ \E req \in totpInflight, settled \in TotpSetupOutcomes : TotpSetupSettles(req, settled)
    \/ \E data \in TotpCodeValues : SetupSubmit(data)
    \/ \E req \in setupInflight, settled \in TotpSetupOutcomes : SetupSettles(req, settled)

SpecTotp == Init /\ [][NextTotp]_vars

\* The requests a step of the TOTP page has put in flight, and those whose
\* fetch it has seen settle.
TotpSent == totpInflight' \ totpInflight
TotpSettling == totpInflight \ totpInflight'

\* The texts that tell that no account exists yet.
AbsencePhrases == {"No user configured", "Authenticator not configured", "404", "409"}

AbsenceSignature(msg) ==
    msg # NoneV /\ \E phrase \in AbsencePhrases : Contains(msg.s, <<phrase>>)

\* C19: a submission of the TOTP form sends its totp-login request first; a
\* setup-first request leaves only in the step that handles the failure of
\* that submission's totp-login with a message matching an account-absence
\* signature, and carries the same totp_code; a totp-login that succeeds or
\* fails with another message sends nothing; no submission ever sends more
\* than one request to either endpoint.
C19_LoginFirstThenSetup ==
    [][/\ \A r \in TotpSent :
              /\ r.url \in {TotpLoginUrl, TotpSetupUrl}
              /\ r.url = TotpLoginUrl =>
                    /\ r.sub = Len(totpHist) + 1
                    /\ totpHist'[r.sub].setupSent = 0
              /\ r.url = TotpSetupUrl =>
                    /\ \E q \in TotpSettling :
                          q.url = TotpLoginUrl /\ q.sub = r.sub /\ r.body = q.body
                    /\ r.body = totpHist[r.sub].payload
                    /\ totpHist'[r.sub].login = "failed"
                    /\ AbsenceSignature(totpHist'[r.sub].loginMsg)
       /\ \A q \in TotpSettling :
              ( /\ q.url = TotpLoginUrl
                /\ \/ totpHist'[q.sub].login = "ok"
                   \/ ~AbsenceSignature(totpHist'[q.sub].loginMsg) ) =>
                  /\ TotpSent = {}
                  /\ totpHist'[q.sub].setupSent = 0
       /\ \A i \in 1..Len(totpHist') :
              /\ totpHist'[i].loginSent <= 1
              /\ totpHist'[i].setupSent <= 1
              /\ totpHist'[i].setupSent = 1 => totpHist'[i].login = "failed"]_vars

\* C19 happens: totp-login answered "No user configured" and the setup-first
\* request of the same submission is in flight with the submitted code.
C19_Witness ==
    \E r \in totpInflight :
        /\ r.url = TotpSetupUrl
        /\ totpHist[r.sub].loginMsg = Str(<<"No user configured">>)
        /\ r.body = Obj([totp_code |-> Str(<<"123456">>)])

\* C20 as stated: a totp-login that fails with "no user configured" or with
\* status 404 or 409, whatever its body, is followed at once by a setup-first
\* request with the same code.
C20_AbsentAccountFallsBack ==
    [][\A q \in TotpSettling :
          ( /\ q.url = TotpLoginUrl
            /\ totpHist'[q.sub].login = "failed"
            /\ \/ totpHist'[q.sub].loginStatus \in {404, 409}
               \/ Contains(totpHist'[q.sub].loginMsg.s, <<"No user configured">>) ) =>
              \E r \in TotpSent : r.url = TotpSetupUrl /\ r.body = q.body]_vars

\* The authenticator codes that are missing, empty or blanks only.
BlankTotpCodes == {c \in TotpCodeValues : c = Undefined \/ (c # Undefined /\ AllBlank(c.s))}

\* C24: submitting a missing, empty or blank authenticator code, on the login
\* form or on the first-time setup form, sets the "required" error status of
\* that form and does nothing else: no request leaves for totp-login or
\* setup-first and nothing navigates.
C24_BlankTotpCodeRejected ==
    [][\A data \in BlankTotpCodes :
          /\ TotpSubmit(data) =>
                /\ totpStatusText' = MsgTotpRequired
                /\ totpStatusVariant' = "error"
                /\ totpHist'[Len(totpHist')].loginSent = 0
                /\ UNCHANGED <<totpInflight, setupInflight, totpHref, setupHref>>
          /\ SetupSubmit(data) =>
                /\ setupStatusText' = MsgTotpRequired
                /\ setupStatusVariant' = "error"
                /\ UNCHANGED <<totpInflight, setupInflight, totpHref, setupHref>>]_vars

\* C24 happens: a blank code was turned down on both forms and nothing is in
\* flight.
C24_Witness ==
    /\ totpStatusText = MsgTotpRequired
    /\ setupStatusText = MsgTotpRequired
    /\ Len(totpHist) = 1
    /\ totpHist[1].payload = Null
    /\ setupCount = 1
    /\ totpInflight = {}
    /\ setupInflight = {}
    /\ totpHref = NoneV
    /\ setupHref = NoneV

----------------------------------------------------------------------------
(* The project dashboard of src/static/project.js (initProjectDashboard)   *)

\* Number of add, archive and delete operations in one dashboard session.
MaxToolOps == 2

toolOptions ==
    << [key |-> "tasks",     label |-> <<"Task form">>],
       [key |-> "kanban",    label |-> <<"Kanban board">>],
       [key |-> "roadmap",   label |-> <<"Roadmap">>],
       [key |-> "backlog",   label |-> <<"Backlog">>],
       [key |-> "sprints",   label |-> <<"Sprints">>],
       [key |-> "resources", label |-> <<"Resources">>] >>

ToolKeys == {toolOptions[i].key : i \in 1..Len(toolOptions)}

\* toolOptions.find((o) => o.key === key)?.label || "Tool"
OptionLabel(key) ==
    LET found == {i \in 1..Len(toolOptions) : toolOptions[i].key = key}
    IN  IF found = {} THEN <<"Tool">>
        ELSE toolOptions[CHOOSE i \in found : \A j \in found : i <= j].label

\* The module initializers on window.
Initializers == {"initTasks", "initBacklogs", "initSprints", "initResources"}

\* The tool sections of the dashboard page, one per data-tool key.
SectionKeys == ToolKeys

\* The panels that refreshVisibility shows and hides.
PanelNames == {"emptyState", "sections", "cardPanel", "inlineWrapper"}

\* The paragraph "Loading tool insights..." of the card list.
LoadingNote == [loading |-> TRUE]

\* A list as JSON.stringify writes it to localStorage and JSON.parse reads it.
Stored(list) == [t |-> "list", items |-> list]

\* What localStorage can hold under the tool key when the dashboard opens:
\* nothing, an empty list, a tool without an archived field, and an archived
\* tool followed by a null entry and two live tools.
SavedLists ==
    { NoneV,
      Stored(<<>>),
      Stored(<< [key |-> "tasks", label |-> <<"Task form">>] >>),
      Stored(<< [key |-> "kanban", label |-> <<"Kanban board">>, archived |-> TRUE],
                Null,
                [key |-> "tasks", label |-> <<"Task form">>, archived |-> FALSE],
                [key |-> "backlog", label |-> <<"Backlog">>, archived |-> FALSE] >>) }

\* The tool keys and custom names entered in the add-tool form.
AddKeys == {"tasks", "kanban"}
LabelInputs == {<<" ">>, <<"My board">>}

\* What fetchToolMetrics gives a render: the metrics, or null after a failure.
MetricsOutcomes == {Null, Obj([tasks |-> 0])}

DashCur ==
    [isFullFlow |-> isFullFlow, activeTools |-> activeTools,
     renderNonce |-> renderNonce, renders |-> renders, cardList |-> cardList,
     chipList |-> chipList, instantiated |-> instantiated,
     initCalls |-> initCalls, sections |-> sections, panels |-> panels,
     storedTools |-> storedTools, modal |-> modal, nextToolId |-> nextToolId]

DashCommit(d) ==
    /\ isFullFlow' = d.isFullFlow
    /\ activeTools' = d.activeTools
    /\ renderNonce' = d.renderNonce
    /\ renders' = d.renders
    /\ cardList' = d.cardList
    /\ chipList' = d.chipList
    /\ instantiated' = d.instantiated
    /\ initCalls' = d.initCalls
    /\ sections' = d.sections
    /\ panels' = d.panels
    /\ storedTools' = d.storedTools
    /\ modal' = d.modal
    /\ nextToolId' = d.nextToolId

\* The indexes (from 0, as in the code) of the entries of a list.
Indexes(list) == 0..(Len(list) - 1)

\* list[idx] of the code: the entry, or undefined outside the list.
At(list, idx) == IF idx \in Indexes(list) THEN list[idx + 1] ELSE Undefined

\* activeTools.filter((t) => !t.archived)
Visible(tools) == SelectSeq(tools, LAMBDA t : ~t.archived)

saveTools(d) ==
    [d EXCEPT !.storedTools = Stored(
        [i \in 1..Len(d.activeTools) |->
            [key |-> d.activeTools[i].key, label |-> d.activeTools[i].label,
             archived |-> d.activeTools[i].archived]])]

refreshVisibility(d) ==
    IF \E i \in 1..Len(d.activeTools) : ~d.activeTools[i].archived
    THEN IF d.isFullFlow
         THEN [d EXCEPT !.panels = (@ \ {"sections", "cardPanel"})
                                      \cup {"emptyState", "inlineWrapper"}]
         ELSE [d EXCEPT !.panels = (@ \ {"sections", "inlineWrapper"})
                                      \cup {"emptyState", "cardPanel"}]
    ELSE [d EXCEPT !.panels = (@ \ {"emptyState"})
                                 \cup {"sections", "cardPanel", "inlineWrapper"}]

displayLabel(tool) ==
    IF tool.archived THEN tool.label \o <<" (Archived)">> ELSE tool.label

\* renderChips: one chip per tool that is not archived, numbered by its place
\* among those.  Field tool is history: the tool object the chip was made from.
renderChips(d) ==
    LET visible == Visible(d.activeTools)
    IN  [d EXCEPT !.chipList =
            [i \in 1..Len(visible) |->
                [label |-> displayLabel(visible[i]), key |-> visible[i].key,
                 idx |-> i - 1, tool |-> visible[i].id]]]

\* getToolCardSummary: the metric of the tool, or the fallback description.
getToolCardSummary(key, fetched) ==
    IF fetched = Null THEN "description"
    ELSE IF key \in {"tasks", "kanban", "backlog", "sprints", "resources"}
         THEN "metric"
         ELSE "description"

\* createToolCard.  Field tool is history: the tool object the card shows.
createToolCard(tool, fetched, idx) ==
    [label |-> tool.label, key |-> tool.key, idx |-> idx,
     summary |-> getToolCardSummary(tool.key, fetched), tool |-> tool.id]

\* renderToolCards, up to its await.
renderToolCards(d) ==
    IF ~d.isFullFlow THEN d
    ELSE IF Visible(d.activeTools) = <<>>
         THEN [d EXCEPT !.cardList = <<>>]
         ELSE [d EXCEPT !.cardList = <<LoadingNote>>,
                        !.renderNonce = @ + 1,
                        !.renders = @ \cup {d.renderNonce + 1}]

\* The cards renderToolCards appends once its metrics are in.
ToolCards(tools, fetched) ==
    LET places == SelectSeq([i \in 1..Len(tools) |-> i],
                            LAMBDA i : ~tools[i].archived)
    IN  [k \in 1..Len(places) |->
            createToolCard(tools[places[k]], fetched, places[k] - 1)]

hideToolSectionIfUnused(d, key) ==
    IF \E i \in 1..Len(d.activeTools) :
          d.activeTools[i].key = key /\ ~d.activeTools[i].archived
    THEN d
    ELSE IF key \notin SectionKeys THEN d
    ELSE [d EXCEPT !.sections[key].hiddenTool = TRUE]

\* The initializers instantiateTool calls for a key.
InitializersOf(key) ==
    (IF key = "tasks" THEN {"initTasks"} ELSE {})
    \cup (IF key = "kanban" THEN {"initTasks"} ELSE {})
    \cup (IF key = "backlog" THEN {"initBacklogs"} ELSE {})
    \cup (IF key = "sprints" THEN {"initSprints"} ELSE {})
    \cup (IF key = "resources" THEN {"initResources"} ELSE {})

instantiateTool(d, tool) ==
    IF tool = Undefined THEN d
    ELSE IF tool.archived \/ d.isFullFlow THEN d
    ELSE IF tool.key \notin SectionKeys THEN d
    ELSE LET shown == [d EXCEPT
                 !.sections[tool.key].hiddenTool = FALSE,
                 !.sections[tool.key].named =
                     IF @ = NoneV THEN Str(tool.label) ELSE @,
                 !.sections[tool.key].closeBtn = TRUE]
         IN  IF tool.key \in d.instantiated THEN shown
             ELSE [shown EXCEPT
                     !.initCalls = [f \in Initializers |->
                         IF f \in InitializersOf(tool.key) THEN @[f] + 1 ELSE @[f]],
                     !.instantiated = @ \cup {tool.key}]

\* activeTools.forEach((t) => { if (!t.archived) instantiateTool(t); })
RECURSIVE InstantiateAll(_, _)
InstantiateAll(d, tools) ==
    IF tools = <<>> THEN d
    ELSE InstantiateAll(IF Head(tools).archived THEN d
                        ELSE instantiateTool(d, Head(tools)),
                        Tail(tools))

\* The rest of a handler after renderChips, refreshVisibility and saveTools.
AfterRemoval(d, tool) ==
    IF d.isFullFlow THEN renderToolCards(d)
    ELSE IF tool # Undefined THEN hideToolSectionIfUnused(d, tool.key)
    ELSE d

removeTool(d, idx) ==
    LET removed == At(d.activeTools, idx)
        rest == IF idx \in Indexes(d.activeTools)
                THEN SubSeq(d.activeTools, 1, idx)
                     \o SubSeq(d.activeTools, idx + 2, Len(d.activeTools))
                ELSE d.activeTools
    IN  AfterRemoval(saveTools(refreshVisibility(renderChips(
            [d EXCEPT !.activeTools = rest]))), removed)

archiveTool(d, idx) ==
    IF At(d.activeTools, idx) = Undefined THEN d
    ELSE AfterRemoval(saveTools(refreshVisibility(renderChips(
            [d EXCEPT !.activeTools[idx + 1].archived = TRUE]))),
            At(d.activeTools, idx))

\* getFirstIndexForKey: -1 when no tool has the key.
getFirstIndexForKey(d, key) ==
    LET live == {i \in Indexes(d.activeTools) :
                    At(d.activeTools, i).key = key /\ ~At(d.activeTools, i).archived}
        any == {i \in Indexes(d.activeTools) : At(d.activeTools, i).key = key}
        First(S) == CHOOSE i \in S : \A j \in S : i <= j
    IN  IF live # {} THEN First(live)
        ELSE IF any # {} THEN First(any)
        ELSE -1

\* confirmToolAction: the tool-action modal for activeTools[idx].
confirmToolAction(d, idx) ==
    IF At(d.activeTools, idx) = Undefined THEN d
    ELSE [d EXCEPT !.modal = [kind |-> "action", idx |-> idx,
                              label |-> displayLabel(At(d.activeTools, idx))]]

\* confirmDelete: the confirm-delete modal for activeTools[idx].
confirmDelete(d, idx) ==
    [d EXCEPT !.modal =
        [kind |-> "delete", idx |-> idx,
         label |-> IF At(d.activeTools, idx) = Undefined THEN <<"this tool">>
                   ELSE displayLabel(At(d.activeTools, idx))]]

\* loadSavedTools, with raw the parsed value of the localStorage entry.
loadSavedTools(d, raw) ==
    IF raw = NoneV THEN d
    ELSE IF Len(raw.items) = 0 THEN d
    ELSE LET kept == SelectSeq(raw.items, LAMBDA e : "key" \in DOMAIN e)
             tools == [i \in 1..Len(kept) |->
                         [id |-> d.nextToolId + i - 1, key |-> kept[i].key,
                          label |-> kept[i].label,
                          archived |-> IF "archived" \in DOMAIN kept[i]
                                       THEN kept[i].archived ELSE FALSE]]
             loaded == refreshVisibility(renderChips(
                          [d EXCEPT !.activeTools = tools,
                                    !.nextToolId = @ + Len(kept)]))
         IN  IF d.isFullFlow THEN renderToolCards(loaded)
             ELSE InstantiateAll(loaded, tools)

\* The dashboard page as served, before initProjectDashboard runs: no tools,
\* the empty state shown, every tool section hidden and unnamed.
DashboardPage(flow, raw) ==
    [isFullFlow |-> flow, activeTools |-> <<>>, renderNonce |-> 0, renders |-> {},
     cardList |-> <<>>, chipList |-> <<>>, instantiated |-> {},
     initCalls |-> [f \in Initializers |-> 0],
     sections |-> [k \in SectionKeys |->
                     [hiddenTool |-> TRUE, named |-> NoneV, closeBtn |-> FALSE]],
     panels |-> {"sections", "cardPanel", "inlineWrapper"},
     storedTools |-> raw, modal |-> NoneV, nextToolId |-> 1]

\* initProjectDashboard: loadSavedTools, then renderToolCards in full flow.
initProjectDashboard(flow, raw) ==
    LET loaded == loadSavedTools(DashboardPage(flow, raw), raw)
    IN  IF flow THEN renderToolCards(loaded) ELSE loaded

InitDash ==
    /\ LoginPageLoads
    /\ TotpPageLoads
    /\ NoTaskBoard
    /\ toolOps = 0
    /\ \E flow \in BOOLEAN, raw \in SavedLists :
          LET d == initProjectDashboard(flow, raw)
          IN  /\ isFullFlow = d.isFullFlow
              /\ activeTools = d.activeTools
              /\ renderNonce = d.renderNonce
              /\ renders = d.renders
              /\ cardList = d.cardList
              /\ chipList = d.chipList
              /\ instantiated = d.instantiated
              /\ initCalls = d.initCalls
              /\ sections = d.sections
              /\ panels = d.panels
              /\ storedTools = d.storedTools
              /\ modal = d.modal
              /\ nextToolId = d.nextToolId

\* What a dashboard action leaves alone.
DashFrame == UNCHANGED <<loginVars, fetchVars, totpVars, taskVars>>

\* Submitting the add-tool form with a tool key and a custom name.
AddTool(key, name) ==
    LET label == IF Trim(name) # <<>> THEN Trim(name) ELSE OptionLabel(key)
        tool == [id |-> nextToolId, key |-> key, label |-> label, archived |-> FALSE]
        pushed == refreshVisibility(renderChips(
                     [DashCur EXCEPT !.activeTools = Append(@, tool),
                                     !.nextToolId = @ + 1]))
    IN  /\ modal = NoneV
        /\ toolOps < MaxToolOps
        /\ toolOps' = toolOps + 1
        /\ DashCommit(saveTools(IF isFullFlow THEN renderToolCards(pushed)
                                ELSE instantiateTool(pushed, tool)))
        /\ DashFrame

\* Click on the close button of the i-th chip.
ChipClick(i) ==
    /\ modal = NoneV
    /\ i \in 1..Len(chipList)
    /\ DashCommit(confirmToolAction(DashCur, chipList[i].idx))
    /\ UNCHANGED toolOps
    /\ DashFrame

\* Click on the remove button of the i-th child of the card list.
CardClick(i) ==
    /\ modal = NoneV
    /\ i \in 1..Len(cardList)
    /\ cardList[i] # LoadingNote
    /\ DashCommit(confirmToolAction(DashCur, cardList[i].idx))
    /\ UNCHANGED toolOps
    /\ DashFrame

\* Click on the close button instantiateTool put on a tool section.
SectionCloseClick(key) ==
    /\ modal = NoneV
    /\ sections[key].closeBtn
    /\ ~sections[key].hiddenTool
    /\ "sections" \notin panels
    /\ LET idx == getFirstIndexForKey(DashCur, key)
       IN  DashCommit(IF idx >= 0 THEN confirmToolAction(DashCur, idx) ELSE DashCur)
    /\ UNCHANGED toolOps
    /\ DashFrame

\* Archive in the tool-action modal.
ArchiveClick ==
    /\ modal # NoneV
    /\ modal.kind = "action"
    /\ toolOps < MaxToolOps
    /\ toolOps' = toolOps + 1
    /\ DashCommit([archiveTool(DashCur, modal.idx) EXCEPT !.modal = NoneV])
    /\ DashFrame

\* Delete in the tool-action modal.
DeleteClick ==
    /\ modal # NoneV
    /\ modal.kind = "action"
    /\ DashCommit(confirmDelete(DashCur, modal.idx))
    /\ UNCHANGED toolOps
    /\ DashFrame

\* Click on the backdrop of either modal, or Cancel in the confirm-delete modal.
DismissModal ==
    /\ modal # NoneV
    /\ DashCommit([DashCur EXCEPT !.modal = NoneV])
    /\ UNCHANGED toolOps
    /\ DashFrame

\* Delete forever in the confirm-delete modal.
ConfirmDelete ==
    /\ modal # NoneV
    /\ modal.kind = "delete"
    /\ toolOps < MaxToolOps
    /\ toolOps' = toolOps + 1
    /\ DashCommit([removeTool(DashCur, modal.idx) EXCEPT !.modal = NoneV])
    /\ DashFrame

\* Mutant of RenderSettles: a render populates the list whatever its token.
RenderSettles_NoNonce(token, fetched) ==
    /\ token \in renders
    /\ DashCommit([DashCur EXCEPT
            !.renders = @ \ {token},
            !.cardList = ToolCards(activeTools, fetched)])
    /\ UNCHANGED toolOps
    /\ DashFrame

\* renderToolCards from its await on: the metrics of the render are in.
RenderSettles(token, fetched) ==
    /\ token \in renders
    /\ DashCommit([DashCur EXCEPT
            !.renders = @ \ {token},
            !.cardList = IF token # renderNonce THEN @
                         ELSE ToolCards(activeTools, fetched)])
    /\ UNCHANGED toolOps
    /\ DashFrame

NextDash ==
    \/ \E key \in AddKeys, name \in LabelInputs : AddTool(key, name)
    \/ \E i \in 1..Len(chipList) : ChipClick(i)
    \/ \E i \in 1..Len(cardList) : CardClick(i)
    \/ \E key \in SectionKeys : SectionCloseClick(key)
    \/ ArchiveClick
    \/ DeleteClick
    \/ DismissModal
    \/ ConfirmDelete
    \/ \E token \in renders, fetched \in MetricsOutcomes : RenderSettles(token, fetched)

SpecDash == InitDash /\ [][NextDash]_vars

\* C25: each module initializer is invoked at most once in a dashboard
\* session, whatever tools are added, archived, deleted or loaded from storage.
C25_InitializersRunOnce ==
    \A f \in Initializers : initCalls[f] <= 1

\* C29: the index stored on every chip is the place in activeTools of the
\* tool the chip was rendered from.
C29_ChipClosesItsTool ==
    \A i \in 1..Len(chipList) :
        /\ chipList[i].idx \in Indexes(activeTools)
        /\ At(activeTools, chipList[i].idx).id = chipList[i].tool

\* The card list shows the live tools: one card per tool that is not archived,
\* in the order of activeTools, each bound to the index of its tool.
CardsMatchTools ==
    LET visible == Visible(activeTools)
    IN  /\ Len(cardList) = Len(visible)
        /\ \A k \in 1..Len(cardList) :
              /\ cardList[k] # LoadingNote
              /\ cardList[k].tool = visible[k].id
              /\ cardList[k].label = visible[k].label
              /\ cardList[k].idx \in Indexes(activeTools)
              /\ At(activeTools, cardList[k].idx).id = cardList[k].tool

\* C28: in full flow, when no render is in flight the card list shows exactly
\* the live tools with their activeTools indexes, and a render that is not
\* the most recently started fetching one leaves the list as it is.
C28_NoStaleCards ==
    /\ [](isFullFlow /\ renders = {} => CardsMatchTools)
    /\ [][\A token \in renders, fetched \in MetricsOutcomes :
             RenderSettles(token, fetched) /\ token # renderNonce
                => UNCHANGED cardList]_vars

\* C28 happens: several renders were started, all have finished, and the list
\* holds a card whose tool follows an archived one.
C28_Witness ==
    /\ isFullFlow
    /\ renders = {}
    /\ renderNonce >= 3
    /\ CardsMatchTools
    /\ \E k \in 1..Len(cardList) : cardList[k].idx # k - 1

----------------------------------------------------------------------------
(* The kanban board of src/static/tasks.js                                 *)

\* Number of user operations and events on the board in one session.
MaxTaskOps == 3

ColumnNames == {"todo", "in-progress", "done", "later"}

\* The paragraph "No tasks yet." of an empty board.
NoTasksNote == [note |-> "No tasks yet."]

\* The task lists the server can hold when the page opens; "blocked" is a
\* status no column has.
ServerStarts ==
    { <<>>,
      << [id |-> 1, status |-> "done"], [id |-> 2, status |-> "blocked"] >> }

\* The detail of a resources:update event.
ResourceDetails == {Undefined, Obj(<<"r1">>)}

\* The title and status sent with a new task.
TitleInputs == {<<>>, <<"T">>}
AddStatuses == {"todo", "done"}

\* How a request to the server ends: a 2xx reply, any other reply, no reply.
RequestOutcomes == {"ok", "refused", "lost"}

TaskCur ==
    [columns |-> columns, metrics |-> metrics, header |-> header,
     resources |-> resources, initCount |-> initCount, loads |-> loads,
     projectLoads |-> projectLoads]

TaskCommit(b) ==
    /\ columns' = b.columns
    /\ metrics' = b.metrics
    /\ header' = b.header
    /\ resources' = b.resources
    /\ initCount' = b.initCount
    /\ loads' = b.loads
    /\ projectLoads' = b.projectLoads

\* The tasks.js script has run on the page as served; initTasks has not.
TaskBoardPage ==
    /\ columns = [c \in ColumnNames |-> <<>>]
    /\ metrics = NoneV
    /\ header = NoneV
    /\ resources = Obj(<<>>)
    /\ initCount = 0
    /\ loads = 0
    /\ projectLoads = 0
    /\ mutations = <<>>
    /\ returned = NoneV
    /\ taskOps = 0

\* loadProject, up to its await.
loadProject(b) == [b EXCEPT !.projectLoads = @ + 1]

\* loadTasks, up to its await: the columns are emptied.
loadTasks(b) ==
    [b EXCEPT !.columns = [c \in ColumnNames |-> <<>>], !.loads = @ + 1]

\* columns[task.status] || columns.todo
ColumnOf(status) == IF status \in ColumnNames THEN status ELSE "todo"

\* renderTask: a card for the task is appended to its column.
renderTask(cols, task) ==
    [cols EXCEPT ![ColumnOf(task.status)] = Append(@, [taskId |-> task.id])]

\* for (const task of tasks) renderTask(task)
RECURSIVE RenderTasks(_, _)
RenderTasks(cols, tasks) ==
    IF tasks = <<>> THEN cols
    ELSE RenderTasks(renderTask(cols, Head(tasks)), Tail(tasks))

\* Math.round((doneCount / total) * 100), for total > 0.
RoundedPercent(doneCount, total) == (200 * doneCount + total) \div (2 * total)

\* A number as the text of an element: its decimal digits.
RECURSIVE NumberText(_)
NumberText(n) ==
    LET digit == <<"0", "1", "2", "3", "4", "5", "6", "7", "8", "9">>
    IN  IF n < 10 THEN <<digit[n + 1]>>
        ELSE NumberText(n \div 10) \o <<digit[(n % 10) + 1]>>

\* The metric fields loadTasks writes for a task list.
Metrics(tasks) ==
    LET total == Len(tasks)
        doneCount == Len(SelectSeq(tasks, LAMBDA t : t.status = "done"))
    IN  [total |-> Str(NumberText(total)), done |-> Str(NumberText(doneCount)),
         todo |-> Str(NumberText(total - doneCount)),
         pct |-> IF total # 0
                 THEN Str(NumberText(RoundedPercent(doneCount, total)) \o <<"%">>)
                 ELSE Str(<<"0", "%">>)]

\* The metric fields loadTasks writes when the request fails.
MetricsFailed ==
    [total |-> Str(<<"0">>), done |-> Str(<<"0">>), todo |-> Str(<<"0">>),
     pct |-> Str(<<"-">>)]

\* loadTasks from its await on, the task list received.
TasksLoaded(b, tasks) ==
    LET shown == IF Len(tasks) = 0
                 THEN [c \in ColumnNames |-> <<NoTasksNote>>]
                 ELSE b.columns
    IN  [b EXCEPT !.columns = RenderTasks(shown, tasks),
                  !.metrics = Metrics(tasks),
                  !.loads = @ - 1]

\* loadTasks from its await on, the request failed.
TasksFailed(b) == [b EXCEPT !.metrics = MetricsFailed, !.loads = @ - 1]

\* The task ids of the cards on the board.
CardIds ==
    UNION {{columns[c][i].taskId :
               i \in {j \in 1..Len(columns[c]) : columns[c][j] # NoTasksNote}} :
           c \in ColumnNames}

InitBoard ==
    /\ LoginPageLoads
    /\ TotpPageLoads
    /\ NoDashboard
    /\ TaskBoardPage
    /\ serverTasks \in ServerStarts

\* What an action of the board leaves alone.
TaskFrame == UNCHANGED <<loginVars, fetchVars, totpVars, dashVars>>

\* One more operation or event on the board.
TaskOp ==
    /\ taskOps < MaxTaskOps
    /\ taskOps' = taskOps + 1

\* window.initTasks()
initTasks ==
    /\ TaskOp
    /\ TaskCommit([loadTasks(loadProject(TaskCur)) EXCEPT !.initCount = @ + 1])
    /\ UNCHANGED <<serverTasks, mutations, returned>>
    /\ TaskFrame

\* loadProject from its await on.
ProjectSettles(outcome) ==
    /\ projectLoads > 0
    /\ TaskCommit([TaskCur EXCEPT
            !.projectLoads = @ - 1,
            !.header = IF outcome = "ok" THEN "project" ELSE "Project not found"])
    /\ UNCHANGED <<serverTasks, mutations, returned, taskOps>>
    /\ TaskFrame

\* A resources:update event reaches the window.
handleResourceUpdate(detail) ==
    /\ TaskOp
    /\ TaskCommit(loadTasks([TaskCur EXCEPT !.resources = Or(detail, Obj(<<>>))]))
    /\ UNCHANGED <<serverTasks, mutations, returned>>
    /\ TaskFrame

\* The requests a handler sends: the same POST, PATCH or DELETE n times.
Sending(n, req) == mutations' = mutations \o [i \in 1..n |-> req]

\* Submitting the task form: every submit listener setupTaskForm added runs.
SubmitTaskForm(title, status) ==
    /\ initCount > 0
    /\ TaskOp
    /\ IF title = <<>>
       THEN UNCHANGED mutations
       ELSE Sending(initCount, [kind |-> "add", id |-> 0, status |-> status])
    /\ UNCHANGED <<columns, metrics, header, resources, initCount, loads,
                   projectLoads, serverTasks, returned>>
    /\ TaskFrame

\* An add button of a column, then Save in the quick-task modal it opens.
QuickAdd(title, status) ==
    /\ initCount > 0
    /\ TaskOp
    /\ IF Trim(title) = <<>>
       THEN UNCHANGED mutations
       ELSE Sending(1, [kind |-> "add", id |-> 0, status |-> status])
    /\ UNCHANGED <<columns, metrics, header, resources, initCount, loads,
                   projectLoads, serverTasks, returned>>
    /\ TaskFrame

\* Save, Delete (confirmed) or a drop on a column, for a card on the board.
CardRequest(req) ==
    /\ req.id \in CardIds
    /\ TaskOp
    /\ Sending(1, req)
    /\ UNCHANGED <<columns, metrics, header, resources, initCount, loads,
                   projectLoads, serverTasks, returned>>
    /\ TaskFrame

SaveClick(id) == CardRequest([kind |-> "save", id |-> id, status |-> ""])

TaskDeleteClick(id) == CardRequest([kind |-> "delete", id |-> id, status |-> ""])

DropCard(id, status) == CardRequest([kind |-> "move", id |-> id, status |-> status])

\* The task list of the server once it has carried a request out.
Served(tasks, req) ==
    LET ids == {tasks[i].id : i \in 1..Len(tasks)}
        next == IF ids = {} THEN 1 ELSE (CHOOSE m \in ids : \A n \in ids : n <= m) + 1
    IN  CASE req.kind = "add" -> Append(tasks, [id |-> next, status |-> req.status])
          [] req.kind = "save" -> tasks
          [] req.kind = "delete" -> SelectSeq(tasks, LAMBDA t : t.id # req.id)
          [] req.kind = "move" ->
                [i \in 1..Len(tasks) |->
                    IF tasks[i].id = req.id
                    THEN [tasks[i] EXCEPT !.status = req.status] ELSE tasks[i]]

\* The rest of an add, save, delete or move handler: the request has settled.
\* window.api throws on a reply that is not ok; the fetch of Delete does not.
MutationSettles(i, outcome) ==
    LET req == mutations[i]
        goesOn == outcome = "ok" \/ (req.kind = "delete" /\ outcome = "refused")
    IN  /\ i \in 1..Len(mutations)
        /\ (outcome = "ok" /\ req.kind \in {"save", "move"})
              => \E k \in 1..Len(serverTasks) : serverTasks[k].id = req.id
        /\ mutations' = SubSeq(mutations, 1, i - 1)
                           \o SubSeq(mutations, i + 1, Len(mutations))
        /\ serverTasks' = IF outcome = "ok" THEN Served(serverTasks, req)
                          ELSE serverTasks
        /\ TaskCommit(IF goesOn THEN loadTasks(TaskCur) ELSE TaskCur)
        /\ UNCHANGED <<returned, taskOps>>
        /\ TaskFrame

\* loadTasks from its await on: the task list is in, or the request failed.
LoadSettles(outcome) ==
    /\ loads > 0
    /\ IF outcome = "ok"
       THEN /\ TaskCommit(TasksLoaded(TaskCur, serverTasks))
            /\ returned' = serverTasks
       ELSE /\ TaskCommit(TasksFailed(TaskCur))
            /\ returned' = NoneV
    /\ UNCHANGED <<serverTasks, mutations, taskOps>>
    /\ TaskFrame

NextBoard ==
    \/ initTasks
    \/ \E outcome \in RequestOutcomes : ProjectSettles(outcome)
    \/ \E detail \in ResourceDetails : handleResourceUpdate(detail)
    \/ \E title \in TitleInputs, status \in AddStatuses : SubmitTaskForm(title, status)
    \/ \E title \in TitleInputs, status \in AddStatuses : QuickAdd(title, status)
    \/ \E id \in CardIds : SaveClick(id)
    \/ \E id \in CardIds : TaskDeleteClick(id)
    \/ \E id \in CardIds, status \in ColumnNames : DropCard(id, status)
    \/ \E i \in 1..Len(mutations), outcome \in RequestOutcomes : MutationSettles(i, outcome)
    \/ \E outcome \in RequestOutcomes : LoadSettles(outcome)

SpecBoard == InitBoard /\ [][NextBoard]_vars

\* The number of cards of a task in a column.
CardsOf(id, c) ==
    Cardinality({i \in 1..Len(columns[c]) : columns[c][i] = [taskId |-> id]})

\* C30: once no loadTasks call is in flight, every task of the list the server
\* returned has exactly one card on the board, in the column of its status
\* (To do for a status without a column).
C30_EachTaskOnce ==
    (loads = 0 /\ returned # NoneV) =>
        \A k \in 1..Len(returned), c \in ColumnNames :
            CardsOf(returned[k].id, c) =
                IF c = ColumnOf(returned[k].status) THEN 1 ELSE 0

====
